---- MODULE Spec2Model ----
(***************************************************************************)
(* A model of the liber EPUB builder: the document model (Epub, Content,   *)
(* ContentReference, Resource), the numbering walks over the Content       *)
(* forest, the OPF and NCX generators and the two archive packagers        *)
(* (output/creator.rs and output/creator_async.rs).                        *)
(*                                                                         *)
(* Strings that the code builds or inspects (file names, paths, navPoint   *)
(* ids, anchors) are sequences of one-character strings, so that           *)
(* formatting (zero padding, concatenation) and inspection (ends_with,     *)
(* rsplit_once, parse) are computed as the code computes them.  Titles and *)
(* byte payloads that the code only copies are opaque strings.             *)
(* Option<T> is a sequence of length 0 (None) or 1 (Some).                 *)
(***************************************************************************)
EXTENDS Integers, Sequences, FiniteSets, TLC

VARIABLES
    epub,        \* the Epub held by the EpubBuilder / EpubFile
    pc,          \* "builder", then the position inside EpubFile::create
    variant,     \* "none" | "sync" | "async": which creator runs
    options,     \* compression handed to EpubFile::new
    zip_writer,  \* the in-memory archive: sequence of entries
    writer,      \* the caller's output sink: entries flushed to it
    result,      \* None | Some("Ok") | Some(<error kind>)
    reference,   \* the ContentReference a caller is building, if any
    builder,     \* the ContentBuilder a caller is building, if any
    returned,    \* the value a direct call of a function returned, if any
    reads        \* async create: the state of the read of each resource

vars == <<epub, pc, variant, options, zip_writer, writer, result, reference, builder, returned, reads>>

(***************************************************************************)
(* Bounds of the model.                                                    *)
(***************************************************************************)
MaxContents == 2
MaxResources == 2

(***************************************************************************)
(* Option and string primitives.                                           *)
(***************************************************************************)
None == <<>>
Some(x) == <<x>>
is_some(o) == o /= <<>>
unwrap(o) == o[1]

DigitChars == <<"0", "1", "2", "3", "4", "5", "6", "7", "8", "9">>

RECURSIVE to_string(_)
\* usize Display: the decimal digits of n, most significant first.
to_string(n) ==
    IF n < 10 THEN <<DigitChars[n + 1]>>
    ELSE to_string(n \div 10) \o <<DigitChars[(n % 10) + 1]>>

\* The format spec {n:02}: zero padded to a minimum width of two.
pad02(n) ==
    LET d == to_string(n)
    IN IF Len(d) < 2 THEN <<"0">> \o d ELSE d

ends_with(s, suffix) ==
    /\ Len(s) >= Len(suffix)
    /\ SubSeq(s, Len(s) - Len(suffix) + 1, Len(s)) = suffix

starts_with(s, prefix) ==
    /\ Len(s) >= Len(prefix)
    /\ SubSeq(s, 1, Len(prefix)) = prefix

\* str::parse::<usize>().unwrap_or(0): the value of a string of decimal
\* digits; anything else (the empty string included) gives 0.
RECURSIVE digits_value(_)
digits_value(s) ==
    IF s = <<>> THEN 0
    ELSE 10 * digits_value(SubSeq(s, 1, Len(s) - 1))
         + ((CHOOSE i \in 1..10 : DigitChars[i] = s[Len(s)]) - 1)

parse_or_zero(s) ==
    IF s /= <<>> /\ \A i \in 1..Len(s) : \E j \in 1..10 : DigitChars[j] = s[i]
    THEN digits_value(s)
    ELSE 0

\* str::split_once('-'): the text before and after the first dash.
split_once_dash(s) ==
    IF \A i \in 1..Len(s) : s[i] /= "-" THEN None
    ELSE LET p == CHOOSE i \in 1..Len(s) :
                      /\ s[i] = "-"
                      /\ \A j \in 1..(i - 1) : s[j] /= "-"
         IN Some(<<SubSeq(s, 1, p - 1), SubSeq(s, p + 1, Len(s))>>)

\* str::rsplit_once('-'): None when there is no dash, else the text before
\* and after the last dash.
rsplit_once_dash(s) ==
    IF \A i \in 1..Len(s) : s[i] /= "-" THEN None
    ELSE LET p == CHOOSE i \in 1..Len(s) :
                      /\ s[i] = "-"
                      /\ \A j \in (i + 1)..Len(s) : s[j] /= "-"
         IN Some(<<SubSeq(s, 1, p - 1), SubSeq(s, p + 1, Len(s))>>)

XHTML_EXT == <<".", "x", "h", "t", "m", "l">>
OEBPS == <<"O", "E", "B", "P", "S", "/">>
NAVPOINT == <<"n", "a", "v", "P", "o", "i", "n", "t", "-">>
MIMETYPE_PATH == <<"m", "i", "m", "e", "t", "y", "p", "e">>
CONTAINER_PATH ==
    <<"M", "E", "T", "A", "-", "I", "N", "F", "/",
      "c", "o", "n", "t", "a", "i", "n", "e", "r", ".", "x", "m", "l">>
DISPLAY_OPTIONS_PATH ==
    <<"M", "E", "T", "A", "-", "I", "N", "F", "/", "c", "o",
      "m", ".", "a", "p", "p", "l", "e", ".", "i", "b", "o",
      "o", "k", "s", ".", "d", "i", "s", "p", "l", "a", "y",
      "-", "o", "p", "t", "i", "o", "n", "s", ".", "x", "m",
      "l">>
STYLE_CSS == <<"s", "t", "y", "l", "e", ".", "c", "s", "s">>
CONTENT_OPF == <<"c", "o", "n", "t", "e", "n", "t", ".", "o", "p", "f">>
TOC_NCX == <<"t", "o", "c", ".", "n", "c", "x">>

(***************************************************************************)
(* ContentReference (epub/content_reference.rs).                           *)
(***************************************************************************)
ContentReference_new(title) ==
    [title |-> title, subcontent_references |-> None, id |-> None]

ContentReference_id(self, name) == [self EXCEPT !.id = Some(name)]

ContentReference_add_child(self, content_reference) ==
    IF is_some(self.subcontent_references)
    THEN [self EXCEPT !.subcontent_references =
              Some(Append(unwrap(self.subcontent_references), content_reference))]
    ELSE [self EXCEPT !.subcontent_references = Some(<<content_reference>>)]

ContentReference_add_children(self, content_references) ==
    IF is_some(self.subcontent_references)
    THEN [self EXCEPT !.subcontent_references =
              Some(unwrap(self.subcontent_references) \o content_references)]
    ELSE [self EXCEPT !.subcontent_references = Some(content_references)]

\* format!("{xhtml}#{id}") or format!("{xhtml}#id{number:02}")
ContentReference_reference_name(self, xhtml, number) ==
    IF is_some(self.id)
    THEN xhtml \o <<"#">> \o unwrap(self.id)
    ELSE xhtml \o <<"#", "i", "d">> \o pad02(number)

(***************************************************************************)
(* Content and its builder (epub/content.rs).                              *)
(***************************************************************************)
Content_new(body, reference_type) ==
    [body |-> body,
     reference_type |-> reference_type,
     subcontents |-> None,
     content_references |-> None,
     filename |-> None]

ContentBuilder_new(body, reference_type) == Content_new(body, reference_type)

ContentBuilder_add_child(self, content) ==
    IF is_some(self.subcontents)
    THEN [self EXCEPT !.subcontents = Some(Append(unwrap(self.subcontents), content))]
    ELSE [self EXCEPT !.subcontents = Some(<<content>>)]

\* add_children overwriting the list it finds.
ContentBuilder_add_children_replacing(self, contents) ==
    [self EXCEPT !.subcontents = Some(contents)]

ContentBuilder_add_children(self, contents) ==
    IF is_some(self.subcontents)
    THEN [self EXCEPT !.subcontents = Some(unwrap(self.subcontents) \o contents)]
    ELSE [self EXCEPT !.subcontents = Some(contents)]

ContentBuilder_add_content_reference(self, content_reference) ==
    IF is_some(self.content_references)
    THEN [self EXCEPT !.content_references =
              Some(Append(unwrap(self.content_references), content_reference))]
    ELSE [self EXCEPT !.content_references = Some(<<content_reference>>)]

ContentBuilder_add_content_references(self, content_references) ==
    IF is_some(self.content_references)
    THEN [self EXCEPT !.content_references =
              Some(unwrap(self.content_references) \o content_references)]
    ELSE [self EXCEPT !.content_references = Some(content_references)]

ContentBuilder_filename(self, name) == [self EXCEPT !.filename = Some(name)]

ContentBuilder_build(self) == self

\* ReferenceType::type_and_title: the machine role and the display title.
ReferenceType_Text(title) == [type |-> "text", title |-> title]
ReferenceType_TitlePage(title) == [type |-> "title-page", title |-> title]

type_and_title(reference_type) == <<reference_type.type, reference_type.title>>

Content_title(self) == type_and_title(self.reference_type)[2]

\* The override if set, else format!("c{number:02}.xhtml").
Content_filename(self, number) ==
    IF is_some(self.filename)
    THEN unwrap(self.filename)
    ELSE <<"c">> \o pad02(number) \o XHTML_EXT

(***************************************************************************)
(* Bodies, the XHTML wrapper (Content::xhtml) and the XML formatter        *)
(* (output/xml.rs).  A body or document is a sequence of tokens.           *)
(***************************************************************************)
XML_DECL == "<?xml version=\"1.0\" encoding=\"utf-8\"?>"
DOCTYPE == "<!DOCTYPE html PUBLIC \"-//W3C//DTD XHTML 1.1//EN\">"
WHITESPACE == "\n            "
STYLESHEET_LINK == "<link href=\"style.css\" rel=\"stylesheet\" type=\"text/css\"/>"
INVALID_UTF8 == "0xFF"
MISMATCHED_END == "</mismatch>"

\* std::str::from_utf8: fails on a byte sequence that is not UTF-8.
from_utf8(body) ==
    IF \E i \in 1..Len(body) : body[i] = INVALID_UTF8
    THEN [err |-> Some("Utf8"), text |-> <<>>]
    ELSE [err |-> None, text |-> body]

\* Content::xhtml without the test for the XML declaration.
Content_xhtml_always_wraps(self, text, add_stylesheet) ==
    LET stylesheet == IF add_stylesheet THEN <<STYLESHEET_LINK>> ELSE <<>>
    IN <<XML_DECL, DOCTYPE, WHITESPACE, "<html>", "<head>", "<title>",
         Content_title(self), "</title>">>
       \o stylesheet \o <<"</head>">> \o text \o <<"</html>">>

\* Content::xhtml putting the stylesheet link into every document it wraps.
Content_xhtml_always_links(self, text, add_stylesheet) ==
    IF ~starts_with(text, <<XML_DECL>>)
    THEN <<XML_DECL, DOCTYPE, WHITESPACE, "<html>", "<head>", "<title>",
           Content_title(self), "</title>", STYLESHEET_LINK, "</head>">>
         \o text \o <<"</html>">>
    ELSE text

Content_xhtml(self, text, add_stylesheet) ==
    IF ~starts_with(text, <<XML_DECL>>)
    THEN LET stylesheet == IF add_stylesheet THEN <<STYLESHEET_LINK>> ELSE <<>>
         IN <<XML_DECL, DOCTYPE, WHITESPACE, "<html>", "<head>", "<title>",
              Content_title(self), "</title>">>
            \o stylesheet \o <<"</head>">> \o text \o <<"</html>">>
    ELSE text

RECURSIVE trim_text(_)
\* Reader with trim_text(true): whitespace-only text between events is dropped.
trim_text(tokens) ==
    IF tokens = <<>> THEN <<>>
    ELSE IF Head(tokens) = WHITESPACE THEN trim_text(Tail(tokens))
    ELSE <<Head(tokens)>> \o trim_text(Tail(tokens))

\* xml::format: re-emits the events of the document; a document the reader
\* rejects gives Error::XmlParser.
xml_format(xml_data) ==
    IF \E i \in 1..Len(xml_data) : xml_data[i] = MISMATCHED_END
    THEN [err |-> Some("XmlParser"), out |-> <<>>, task |-> "caller"]
    ELSE [err |-> None, out |-> trim_text(xml_data), task |-> "caller"]

\* xml::async_format: the same formatter, run by spawn_blocking on a thread
\* of the blocking pool.
xml_async_format(xml_data) == [xml_format(xml_data) EXCEPT !.task = "worker"]

FileContent_new(filepath, bytes) == [filepath |-> filepath, bytes |-> bytes]

(***************************************************************************)
(* Depth (Content::level, Content::level_reference_content,                *)
(* ContentReference::level).  Indexing [0] of an empty vector panics: the  *)
(* *_panics predicates say when, the level operators give the value        *)
(* otherwise.                                                              *)
(***************************************************************************)
RECURSIVE ContentReference_level_panics(_)
ContentReference_level_panics(self) ==
    /\ is_some(self.subcontent_references)
    /\ \/ unwrap(self.subcontent_references) = <<>>
       \/ ContentReference_level_panics(unwrap(self.subcontent_references)[1])

RECURSIVE ContentReference_level(_)
ContentReference_level(self) ==
    IF is_some(self.subcontent_references)
    THEN 1 + ContentReference_level(unwrap(self.subcontent_references)[1])
    ELSE 0

RECURSIVE Content_level_panics(_)
Content_level_panics(self) ==
    /\ is_some(self.subcontents)
    /\ \/ unwrap(self.subcontents) = <<>>
       \/ Content_level_panics(unwrap(self.subcontents)[1])

RECURSIVE Content_level(_)
Content_level(self) ==
    IF is_some(self.subcontents)
    THEN 1 + Content_level(unwrap(self.subcontents)[1])
    ELSE 0

RECURSIVE Content_level_reference_content_panics(_)
Content_level_reference_content_panics(self) ==
    \/ /\ is_some(self.content_references)
       /\ \/ unwrap(self.content_references) = <<>>
          \/ ContentReference_level_panics(unwrap(self.content_references)[1])
    \/ /\ is_some(self.subcontents)
       /\ \/ unwrap(self.subcontents) = <<>>
          \/ Content_level_reference_content_panics(unwrap(self.subcontents)[1])

max(a, b) == IF a >= b THEN a ELSE b

\* level_reference_content that measures the references of the node alone.
Content_level_reference_content_references_only(self) ==
    IF is_some(self.content_references)
    THEN 1 + ContentReference_level(unwrap(self.content_references)[1])
    ELSE 0

RECURSIVE Content_level_reference_content(_)
Content_level_reference_content(self) ==
    LET content_references_level ==
            IF is_some(self.content_references)
            THEN 1 + ContentReference_level(unwrap(self.content_references)[1])
            ELSE 0
        subcontents_cont_ref_level ==
            IF is_some(self.subcontents)
            THEN 1 + Content_level_reference_content(unwrap(self.subcontents)[1])
            ELSE 0
    IN max(content_references_level, subcontents_cont_ref_level)

\* Iterator::max().unwrap_or(1) over f applied to each element.
max_or_one(values) ==
    IF values = <<>> THEN 1
    ELSE CHOOSE m \in {values[i] : i \in 1..Len(values)} :
             \A i \in 1..Len(values) : values[i] <= m

\* Epub::level following the first root Content only.
Epub_level_first_root_only(self) ==
    IF is_some(self.contents)
    THEN LET contents == unwrap(self.contents)
         IN IF contents = <<>> THEN 1
            ELSE max(Content_level(contents[1]) + 1,
                     Content_level_reference_content(contents[1]) + 1)
    ELSE 0

Epub_level_panics(self) ==
    /\ is_some(self.contents)
    /\ \E i \in 1..Len(unwrap(self.contents)) :
           \/ Content_level_panics(unwrap(self.contents)[i])
           \/ Content_level_reference_content_panics(unwrap(self.contents)[i])

Epub_level(self) ==
    IF is_some(self.contents)
    THEN LET contents == unwrap(self.contents)
             level_subcontents ==
                 max_or_one([i \in 1..Len(contents) |-> Content_level(contents[i]) + 1])
             level_content_references ==
                 max_or_one([i \in 1..Len(contents) |->
                                 Content_level_reference_content(contents[i]) + 1])
         IN max(level_subcontents, level_content_references)
    ELSE 0

(***************************************************************************)
(* The XHTML emitter walk (Content::file_content and                       *)
(* Content::async_file_content).  A walk returns the files produced, the   *)
(* counter as the walk leaves it and the first error, if any.  The bytes of *)
(* an archive entry are a record: [xhtml |-> tokens] for a content         *)
(* document, [data |-> ..] or [read |-> path] for bytes copied verbatim or *)
(* read from a path, and the fields of                                     *)
(* the package and navigation documents for content.opf and toc.ncx.       *)
(***************************************************************************)
RECURSIVE Content_file_content(_, _, _)
RECURSIVE file_content_subcontents(_, _, _)

\* for content in subcontents { content.file_content(number, ..)? ; extend }
file_content_subcontents(subcontents, number, add_stylesheet) ==
    IF subcontents = <<>>
    THEN [err |-> None, files |-> <<>>, number |-> number, tasks |-> <<>>]
    ELSE LET contents == Content_file_content(Head(subcontents), number, add_stylesheet)
         IN IF is_some(contents.err) THEN contents
            ELSE LET rest == file_content_subcontents(Tail(subcontents),
                                                      contents.number, add_stylesheet)
                 IN [err |-> rest.err,
                     files |-> contents.files \o rest.files,
                     number |-> rest.number,
                     tasks |-> contents.tasks \o rest.tasks]

\* Content::file_content with a counter that stands still at a node that has
\* an explicit file name.
Content_file_content_override_uncounted(self, number0, add_stylesheet) ==
    LET number == IF is_some(self.filename) THEN number0 ELSE number0 + 1
        filepath == OEBPS \o Content_filename(self, number)
        text == from_utf8(self.body)
        xhtml_content == xml_format(Content_xhtml(self, text.text, add_stylesheet))
    IN IF is_some(text.err)
       THEN [err |-> text.err, files |-> <<>>, number |-> number, tasks |-> <<>>]
       ELSE IF is_some(xhtml_content.err)
       THEN [err |-> xhtml_content.err, files |-> <<>>, number |-> number, tasks |-> <<>>]
       ELSE LET subs == IF is_some(self.subcontents)
                        THEN file_content_subcontents(unwrap(self.subcontents),
                                                      number, add_stylesheet)
                        ELSE [err |-> None, files |-> <<>>, number |-> number, tasks |-> <<>>]
            IN [err |-> subs.err,
                files |-> <<FileContent_new(filepath, [xhtml |-> xhtml_content.out])>> \o subs.files,
                number |-> subs.number,
                tasks |-> <<xhtml_content.task>> \o subs.tasks]

Content_file_content(self, number0, add_stylesheet) ==
    LET number == number0 + 1
        filepath == OEBPS \o Content_filename(self, number)
        text == from_utf8(self.body)
        xhtml_content == xml_format(Content_xhtml(self, text.text, add_stylesheet))
    IN IF is_some(text.err)
       THEN [err |-> text.err, files |-> <<>>, number |-> number, tasks |-> <<>>]
       ELSE IF is_some(xhtml_content.err)
       THEN [err |-> xhtml_content.err, files |-> <<>>, number |-> number, tasks |-> <<>>]
       ELSE LET subs == IF is_some(self.subcontents)
                        THEN file_content_subcontents(unwrap(self.subcontents),
                                                      number, add_stylesheet)
                        ELSE [err |-> None, files |-> <<>>, number |-> number, tasks |-> <<>>]
            IN [err |-> subs.err,
                files |-> <<FileContent_new(filepath, [xhtml |-> xhtml_content.out])>> \o subs.files,
                number |-> subs.number,
                tasks |-> <<xhtml_content.task>> \o subs.tasks]

\* The asynchronous twin: its own document is formatted by async_format, its
\* subcontents by the synchronous file_content.
Content_async_file_content(self, number0, add_stylesheet) ==
    LET number == number0 + 1
        filepath == OEBPS \o Content_filename(self, number)
        text == from_utf8(self.body)
        xhtml_content == xml_async_format(Content_xhtml(self, text.text, add_stylesheet))
    IN IF is_some(text.err)
       THEN [err |-> text.err, files |-> <<>>, number |-> number, tasks |-> <<>>]
       ELSE IF is_some(xhtml_content.err)
       THEN [err |-> xhtml_content.err, files |-> <<>>, number |-> number, tasks |-> <<>>]
       ELSE LET subs == IF is_some(self.subcontents)
                        THEN file_content_subcontents(unwrap(self.subcontents),
                                                      number, add_stylesheet)
                        ELSE [err |-> None, files |-> <<>>, number |-> number, tasks |-> <<>>]
            IN [err |-> subs.err,
                files |-> <<FileContent_new(filepath, [xhtml |-> xhtml_content.out])>> \o subs.files,
                number |-> subs.number,
                tasks |-> <<xhtml_content.task>> \o subs.tasks]

RECURSIVE async_file_content_contents(_, _, _)
\* for content in contents { content.async_file_content(..).await? ; extend }
async_file_content_contents(contents, number, add_stylesheet) ==
    IF contents = <<>>
    THEN [err |-> None, files |-> <<>>, number |-> number, tasks |-> <<>>]
    ELSE LET res == Content_async_file_content(Head(contents), number, add_stylesheet)
         IN IF is_some(res.err) THEN res
            ELSE LET rest == async_file_content_contents(Tail(contents),
                                                         res.number, add_stylesheet)
                 IN [err |-> rest.err,
                     files |-> res.files \o rest.files,
                     number |-> rest.number,
                     tasks |-> res.tasks \o rest.tasks]

(***************************************************************************)
(* The OPF generator (output/file_content.rs: content_opf and              *)
(* create_content_chain).  The walk appends f(filename, reference_type)    *)
(* per Content node; kind names which closure f is.                        *)
(***************************************************************************)
manifest_item(filename, reference_type) ==
    [id |-> filename, href |-> filename, media_type |-> "application/xhtml+xml"]

spine_itemref(filename, reference_type) == [idref |-> filename]

guide_reference(filename, reference_type) ==
    [type |-> type_and_title(reference_type)[1],
     title |-> type_and_title(reference_type)[2],
     href |-> filename]

apply_closure(kind, filename, reference_type) ==
    CASE kind = "manifest" -> manifest_item(filename, reference_type)
      [] kind = "spine" -> spine_itemref(filename, reference_type)
      [] kind = "guide" -> guide_reference(filename, reference_type)

RECURSIVE create_content_chain_counting_references(_, _, _)
\* create_content_chain with a counter that also advances once for every
\* ContentReference of the node, as a play-order counter does.
create_content_chain_counting_references(file_number0, contents, kind) ==
    IF ~is_some(contents) \/ unwrap(contents) = <<>>
    THEN [err |-> None, cb |-> <<>>, file_number |-> file_number0]
    ELSE LET con == Head(unwrap(contents))
             file_number == file_number0 + 1
             filename == Content_filename(con, file_number)
             after_references ==
                 file_number
                 + (IF is_some(con.content_references)
                    THEN Len(unwrap(con.content_references)) ELSE 0)
         IN IF ~ends_with(filename, XHTML_EXT)
            THEN [err |-> Some("ContentFilename"), cb |-> <<>>,
                  file_number |-> file_number]
            ELSE LET subs == create_content_chain_counting_references(
                                 after_references, con.subcontents, kind)
                 IN IF is_some(subs.err)
                    THEN subs
                    ELSE LET rest == create_content_chain_counting_references(
                                         subs.file_number,
                                         Some(Tail(unwrap(contents))), kind)
                         IN [err |-> rest.err,
                             cb |-> <<apply_closure(kind, filename, con.reference_type)>>
                                    \o subs.cb \o rest.cb,
                             file_number |-> rest.file_number]

RECURSIVE create_content_chain_children_unchecked(_, _, _)
\* create_content_chain that goes on to the next sibling when the walk of
\* the children returns an error, instead of returning that error.
create_content_chain_children_unchecked(file_number0, contents, kind) ==
    IF ~is_some(contents) \/ unwrap(contents) = <<>>
    THEN [err |-> None, cb |-> <<>>, file_number |-> file_number0]
    ELSE LET con == Head(unwrap(contents))
             file_number == file_number0 + 1
             filename == Content_filename(con, file_number)
         IN IF ~ends_with(filename, XHTML_EXT)
            THEN [err |-> Some("ContentFilename"), cb |-> <<>>,
                  file_number |-> file_number]
            ELSE LET subs == create_content_chain_children_unchecked(
                                 file_number, con.subcontents, kind)
                     rest == create_content_chain_children_unchecked(
                                 subs.file_number,
                                 Some(Tail(unwrap(contents))), kind)
                 IN [err |-> rest.err,
                     cb |-> <<apply_closure(kind, filename, con.reference_type)>>
                            \o subs.cb \o rest.cb,
                     file_number |-> rest.file_number]

RECURSIVE create_content_chain(_, _, _)
\* contents is Option<&[Content]>.  Returns the counter, the elements added
\* to the builder and the error of the first invalid file name.
create_content_chain(file_number0, contents, kind) ==
    IF ~is_some(contents) \/ unwrap(contents) = <<>>
    THEN [err |-> None, cb |-> <<>>, file_number |-> file_number0]
    ELSE LET con == Head(unwrap(contents))
             file_number == file_number0 + 1
             filename == Content_filename(con, file_number)
         IN IF ~ends_with(filename, XHTML_EXT)
            THEN [err |-> Some("ContentFilename"), cb |-> <<>>,
                  file_number |-> file_number]
            ELSE LET subs == create_content_chain(file_number, con.subcontents, kind)
                 IN IF is_some(subs.err)
                    THEN subs
                    ELSE LET rest == create_content_chain(
                                         subs.file_number,
                                         Some(Tail(unwrap(contents))), kind)
                         IN [err |-> rest.err,
                             cb |-> <<apply_closure(kind, filename, con.reference_type)>>
                                    \o subs.cb \o rest.cb,
                             file_number |-> rest.file_number]

(***************************************************************************)
(* Resource (epub/resource.rs).  A path is a sequence of components.       *)
(***************************************************************************)
DOTDOT == <<".", ".">>

Resource_Image(path, image_type) == [kind |-> "Image", path |-> path, image_type |-> image_type]
Resource_Font(path) == [kind |-> "Font", path |-> path, image_type |-> "none"]

ImageType_media_type(image_type) ==
    CASE image_type = "Jpg" -> "image/jpeg"
      [] image_type = "Png" -> "image/png"
      [] image_type = "Gif" -> "image/gif"
      [] image_type = "Svg" -> "image/svg+xml"

Resource_media_type(self) ==
    CASE self.kind = "Image" -> ImageType_media_type(self.image_type)
      [] self.kind = "Font" -> "application/vnd.ms-opentype"
      [] self.kind = "Audio" -> "audio/mpeg"
      [] self.kind = "Video" -> "video/mp4"

\* Path::file_name: the last component, unless the path is empty or ends in "..".
Resource_filename(self) ==
    IF self.path = <<>> \/ self.path[Len(self.path)] = DOTDOT
    THEN [err |-> Some("FilenameNotFound"), name |-> <<>>]
    ELSE [err |-> None, name |-> self.path[Len(self.path)]]

Resource_as_manifest_xml(self) ==
    IF is_some(Resource_filename(self).err) THEN None
    ELSE Some([id |-> Resource_filename(self).name,
               href |-> Resource_filename(self).name,
               media_type |-> Resource_media_type(self)])

\* Resource::file_content and async_file_content; readable says whether the
\* read of the path succeeds.
Resource_file_content(self, readable) ==
    IF is_some(Resource_filename(self).err)
    THEN [err |-> Resource_filename(self).err, file |-> <<>>]
    ELSE IF ~readable
    THEN [err |-> Some("Io"), file |-> <<>>]
    ELSE [err |-> None,
          file |-> Some(FileContent_new(OEBPS \o Resource_filename(self).name,
                                        [read |-> self.path]))]

(***************************************************************************)
(* Epub and EpubBuilder (epub/epub_builder.rs).                            *)
(***************************************************************************)
Epub_new(metadata) ==
    [metadata |-> metadata,
     stylesheet |-> None,
     cover_image |-> None,
     resources |-> None,
     contents |-> None]

EpubBuilder_new(metadata) == Epub_new(metadata)

Epub_cover_image_as_metadata_xml(self) ==
    IF ~is_some(self.cover_image) THEN None
    ELSE IF is_some(Resource_filename(unwrap(self.cover_image)).err) THEN None
    ELSE Some([name |-> "cover",
               content |-> Resource_filename(unwrap(self.cover_image)).name])

Epub_cover_image_as_manifest_xml(self) ==
    IF ~is_some(self.cover_image) THEN None
    ELSE Resource_as_manifest_xml(unwrap(self.cover_image))

Epub_level_as_toc_xml(self) == [name |-> "dtb:depth", content |-> Epub_level(self)]

\* The loop over the resources listing the first resource only.
resources_as_manifest_xml_first_only(resources) ==
    IF resources = <<>> THEN <<>>
    ELSE Resource_as_manifest_xml(Head(resources))

RECURSIVE resources_as_manifest_xml(_)
\* for resource in resources { cb.add_optional(resource.as_manifest_xml()) }
resources_as_manifest_xml(resources) ==
    IF resources = <<>> THEN <<>>
    ELSE Resource_as_manifest_xml(Head(resources))
         \o resources_as_manifest_xml(Tail(resources))

\* content_opf with one counter carried from the manifest walk into the
\* spine walk and on into the guide walk, instead of three counters of 0.
content_opf_shared_counter(self) ==
    LET manifest == create_content_chain(0, self.contents, "manifest")
        spine == create_content_chain(manifest.file_number, self.contents, "spine")
        guide == create_content_chain(spine.file_number, self.contents, "guide")
        head == <<[id |-> <<"n", "c", "x">>, href |-> TOC_NCX,
                   media_type |-> "application/x-dtbncx+xml"]>>
                \o (IF is_some(self.stylesheet)
                    THEN <<[id |-> STYLE_CSS, href |-> STYLE_CSS, media_type |-> "text/css"]>>
                    ELSE <<>>)
                \o Epub_cover_image_as_manifest_xml(self)
                \o (IF is_some(self.resources)
                    THEN resources_as_manifest_xml(unwrap(self.resources))
                    ELSE <<>>)
    IN IF is_some(manifest.err) THEN [err |-> manifest.err, file |-> None]
       ELSE IF is_some(spine.err) THEN [err |-> spine.err, file |-> None]
       ELSE IF is_some(guide.err) THEN [err |-> guide.err, file |-> None]
       ELSE [err |-> None,
             file |-> Some(FileContent_new(
                 OEBPS \o CONTENT_OPF,
                 [metadata |-> [title |-> self.metadata.title,
                                cover |-> Epub_cover_image_as_metadata_xml(self)],
                  manifest |-> head \o manifest.cb,
                  spine |-> spine.cb,
                  guide |-> guide.cb,
                  formatted |-> FALSE]))]

\* file_content::content_opf.  Each of the three sections runs
\* create_content_chain from a counter of 0.
content_opf(self) ==
    LET manifest == create_content_chain(0, self.contents, "manifest")
        spine == create_content_chain(0, self.contents, "spine")
        guide == create_content_chain(0, self.contents, "guide")
        head == <<[id |-> <<"n", "c", "x">>, href |-> TOC_NCX,
                   media_type |-> "application/x-dtbncx+xml"]>>
                \o (IF is_some(self.stylesheet)
                    THEN <<[id |-> STYLE_CSS, href |-> STYLE_CSS, media_type |-> "text/css"]>>
                    ELSE <<>>)
                \o Epub_cover_image_as_manifest_xml(self)
                \o (IF is_some(self.resources)
                    THEN resources_as_manifest_xml(unwrap(self.resources))
                    ELSE <<>>)
    IN IF is_some(manifest.err) THEN [err |-> manifest.err, file |-> None]
       ELSE IF is_some(spine.err) THEN [err |-> spine.err, file |-> None]
       ELSE IF is_some(guide.err) THEN [err |-> guide.err, file |-> None]
       ELSE [err |-> None,
             file |-> Some(FileContent_new(
                 OEBPS \o CONTENT_OPF,
                 [metadata |-> [title |-> self.metadata.title,
                                cover |-> Epub_cover_image_as_metadata_xml(self)],
                  manifest |-> head \o manifest.cb,
                  spine |-> spine.cb,
                  guide |-> guide.cb,
                  formatted |-> FALSE]))]

(***************************************************************************)
(* The NCX generator (output/file_content.rs: toc_ncx,                     *)
(* contents_to_nav_point, content_references_to_nav_point).  A navPoint    *)
(* element is a record; the elements nested in it are its                  *)
(* content_references / subcontent_references and subs fields, in the      *)
(* order the format string places them.                                    *)
(***************************************************************************)
RECURSIVE content_references_to_nav_point(_, _, _, _, _)
RECURSIVE content_references_each(_, _, _, _, _, _)

RECURSIVE content_references_each_stale_play_order(_, _, _, _, _, _)
\* The loop going on to the next reference with the play order of the
\* current one, not with the one its nested references left.
content_references_each_stale_play_order(current_xhtml, play_order0, prefix, toc_number0, content_references, link_number0) ==
    IF content_references = <<>>
    THEN [xml |-> <<>>, play_order |-> play_order0, link_number |-> link_number0]
    ELSE LET content_reference == Head(content_references)
             current_link == link_number0 + 1
             toc_number == toc_number0 + 1
             current_toc == prefix \o <<"-">> \o to_string(toc_number)
             current_play_order == play_order0 + 1
             subs == IF is_some(content_reference.subcontent_references)
                     THEN content_references_to_nav_point(
                              current_xhtml, current_play_order,
                              current_toc \o <<"-">>,
                              unwrap(content_reference.subcontent_references),
                              current_link)
                     ELSE [xml |-> <<>>, play_order |-> current_play_order,
                           link_number |-> current_link]
             nav_point ==
                 [id |-> NAVPOINT \o to_string(current_xhtml[1]) \o current_toc,
                  playOrder |-> current_play_order,
                  text |-> content_reference.title,
                  src |-> ContentReference_reference_name(
                              content_reference, current_xhtml[2], current_link),
                  subcontent_references |-> subs.xml]
             rest == content_references_each_stale_play_order(
                         current_xhtml, current_play_order, prefix, toc_number,
                         Tail(content_references), subs.link_number)
         IN [xml |-> <<nav_point>> \o rest.xml,
             play_order |-> rest.play_order,
             link_number |-> rest.link_number]

RECURSIVE content_references_each_id_without_number(_, _, _, _, _, _)
\* The loop leaving the number of the owning document out of the ids.
content_references_each_id_without_number(current_xhtml, play_order0, prefix, toc_number0, content_references, link_number0) ==
    IF content_references = <<>>
    THEN [xml |-> <<>>, play_order |-> play_order0, link_number |-> link_number0]
    ELSE LET content_reference == Head(content_references)
             current_link == link_number0 + 1
             toc_number == toc_number0 + 1
             current_toc == prefix \o <<"-">> \o to_string(toc_number)
             current_play_order == play_order0 + 1
             subs == IF is_some(content_reference.subcontent_references)
                     THEN content_references_to_nav_point(
                              current_xhtml, current_play_order,
                              current_toc \o <<"-">>,
                              unwrap(content_reference.subcontent_references),
                              current_link)
                     ELSE [xml |-> <<>>, play_order |-> current_play_order,
                           link_number |-> current_link]
             nav_point ==
                 [id |-> NAVPOINT \o current_toc,
                  playOrder |-> current_play_order,
                  text |-> content_reference.title,
                  src |-> ContentReference_reference_name(
                              content_reference, current_xhtml[2], current_link),
                  subcontent_references |-> subs.xml]
             rest == content_references_each_id_without_number(
                         current_xhtml, subs.play_order, prefix, toc_number,
                         Tail(content_references), subs.link_number)
         IN [xml |-> <<nav_point>> \o rest.xml,
             play_order |-> rest.play_order,
             link_number |-> rest.link_number]

\* The for loop of content_references_to_nav_point, with its loop-local
\* toc_number.
content_references_each(current_xhtml, play_order0, prefix, toc_number0, content_references, link_number0) ==
    IF content_references = <<>>
    THEN [xml |-> <<>>, play_order |-> play_order0, link_number |-> link_number0]
    ELSE LET content_reference == Head(content_references)
             current_link == link_number0 + 1
             toc_number == toc_number0 + 1
             current_toc == prefix \o <<"-">> \o to_string(toc_number)
             current_play_order == play_order0 + 1
             subs == IF is_some(content_reference.subcontent_references)
                     THEN content_references_to_nav_point(
                              current_xhtml, current_play_order,
                              current_toc \o <<"-">>,
                              unwrap(content_reference.subcontent_references),
                              current_link)
                     ELSE [xml |-> <<>>, play_order |-> current_play_order,
                           link_number |-> current_link]
             nav_point ==
                 [id |-> NAVPOINT \o to_string(current_xhtml[1]) \o current_toc,
                  playOrder |-> current_play_order,
                  text |-> content_reference.title,
                  src |-> ContentReference_reference_name(
                              content_reference, current_xhtml[2], current_link),
                  subcontent_references |-> subs.xml]
             rest == content_references_each(
                         current_xhtml, subs.play_order, prefix, toc_number,
                         Tail(content_references), subs.link_number)
         IN [xml |-> <<nav_point>> \o rest.xml,
             play_order |-> rest.play_order,
             link_number |-> rest.link_number]

content_references_to_nav_point(current_xhtml, play_order, toc_index, content_references, link_number) ==
    LET split == rsplit_once_dash(toc_index)
        prefix == IF is_some(split) THEN unwrap(split)[1] ELSE <<>>
        toc_number == IF is_some(split) THEN parse_or_zero(unwrap(split)[2]) ELSE 0
    IN content_references_each(current_xhtml, play_order, prefix, toc_number,
                               content_references, link_number)

RECURSIVE contents_to_nav_point_children_first(_, _)
\* contents_to_nav_point that walks the children of a node before the
\* references of the node.
contents_to_nav_point_children_first(play_order0, contents) ==
    IF contents = <<>>
    THEN [xml |-> <<>>, play_order |-> play_order0]
    ELSE LET content == Head(contents)
             current_play_order == play_order0 + 1
             filename == Content_filename(content, current_play_order)
             subs == IF is_some(content.subcontents)
                     THEN contents_to_nav_point_children_first(
                              current_play_order, unwrap(content.subcontents))
                     ELSE [xml |-> <<>>, play_order |-> current_play_order]
             content_references ==
                 IF is_some(content.content_references)
                 THEN content_references_to_nav_point(
                          <<current_play_order, filename>>, subs.play_order,
                          <<>>, unwrap(content.content_references), 0)
                 ELSE [xml |-> <<>>, play_order |-> subs.play_order, link_number |-> 0]
             nav_point ==
                 [id |-> NAVPOINT \o to_string(current_play_order),
                  playOrder |-> current_play_order,
                  text |-> Content_title(content),
                  src |-> filename,
                  content_references |-> content_references.xml,
                  subs |-> subs.xml]
             rest == contents_to_nav_point_children_first(
                         content_references.play_order, Tail(contents))
         IN [xml |-> <<nav_point>> \o rest.xml, play_order |-> rest.play_order]

RECURSIVE contents_to_nav_point(_, _)
contents_to_nav_point(play_order0, contents) ==
    IF contents = <<>>
    THEN [xml |-> <<>>, play_order |-> play_order0]
    ELSE LET content == Head(contents)
             current_play_order == play_order0 + 1
             filename == Content_filename(content, current_play_order)
             content_references ==
                 IF is_some(content.content_references)
                 THEN content_references_to_nav_point(
                          <<current_play_order, filename>>, current_play_order,
                          <<>>, unwrap(content.content_references), 0)
                 ELSE [xml |-> <<>>, play_order |-> current_play_order, link_number |-> 0]
             subs == IF is_some(content.subcontents)
                     THEN contents_to_nav_point(content_references.play_order,
                                                unwrap(content.subcontents))
                     ELSE [xml |-> <<>>, play_order |-> content_references.play_order]
             nav_point ==
                 [id |-> NAVPOINT \o to_string(current_play_order),
                  playOrder |-> current_play_order,
                  text |-> Content_title(content),
                  src |-> filename,
                  content_references |-> content_references.xml,
                  subs |-> subs.xml]
             rest == contents_to_nav_point(subs.play_order, Tail(contents))
         IN [xml |-> <<nav_point>> \o rest.xml, play_order |-> rest.play_order]

\* file_content::toc_ncx.  Epub::level indexes the first child of every
\* present list, so it panics on a present but empty list.
toc_ncx(self) ==
    IF Epub_level_panics(self)
    THEN [err |-> Some("Panic"), file |-> None]
    ELSE [err |-> None,
          file |-> Some(FileContent_new(
              OEBPS \o TOC_NCX,
              [depth |-> Epub_level_as_toc_xml(self).content,
               docTitle |-> self.metadata.title,
               navMap |-> IF is_some(self.contents)
                          THEN contents_to_nav_point(0, unwrap(self.contents)).xml
                          ELSE <<>>,
               formatted |-> FALSE]))]

(***************************************************************************)
(* The values the builder calls are given.                                 *)
(***************************************************************************)
BODY == <<"<body>", "text", "</body>">>
BODY_INVALID_UTF8 == <<"<body>", INVALID_UTF8, "</body>">>
BODY_MALFORMED == <<"<body>", MISMATCHED_END>>

RefA == ContentReference_new("Ref A")
RefFour == ContentReference_id(ContentReference_new("Ref B"), <<"f", "o", "u", "r">>)
RefNested ==
    ContentReference_add_child(
        ContentReference_new("Level 1"),
        ContentReference_add_child(ContentReference_new("Level 2"),
                                   ContentReference_new("Level 3")))

Plain == ContentBuilder_build(ContentBuilder_new(BODY, ReferenceType_Text("Plain")))
Named ==
    ContentBuilder_build(
        ContentBuilder_filename(ContentBuilder_new(BODY, ReferenceType_TitlePage("Named")),
                                <<"i", "n", "t", "r", "o">> \o XHTML_EXT))
WithRefs ==
    ContentBuilder_build(
        ContentBuilder_add_content_references(
            ContentBuilder_new(BODY, ReferenceType_Text("WithRefs")),
            <<RefNested, RefFour>>))
Parent ==
    ContentBuilder_build(
        ContentBuilder_add_children(
            ContentBuilder_add_content_reference(
                ContentBuilder_new(BODY, ReferenceType_Text("Parent")), RefA),
            <<Plain, Named>>))
Deep ==
    ContentBuilder_build(
        ContentBuilder_add_child(
            ContentBuilder_new(BODY, ReferenceType_Text("Deep")),
            ContentBuilder_build(
                ContentBuilder_add_child(
                    ContentBuilder_add_content_reference(
                        ContentBuilder_new(BODY, ReferenceType_Text("Deep child")), RefA),
                    Plain))))
\* An explicit file name equal to the one the counter gives the second node.
NamedAsSecond ==
    ContentBuilder_build(
        ContentBuilder_filename(ContentBuilder_new(BODY, ReferenceType_Text("NamedAsSecond")),
                                <<"c", "0", "2">> \o XHTML_EXT))
\* A node whose later reference and whose later child nest deeper than the
\* first ones.
LateDeep ==
    ContentBuilder_build(
        ContentBuilder_add_children(
            ContentBuilder_add_content_references(
                ContentBuilder_new(BODY, ReferenceType_Text("LateDeep")),
                <<RefA, RefNested>>),
            <<Plain, Deep>>))
BadName ==
    ContentBuilder_build(
        ContentBuilder_filename(ContentBuilder_new(BODY, ReferenceType_Text("BadName")),
                                <<"n", "o", "t", "e", "s", ".", "h", "t", "m", "l">>))
BadDeep ==
    ContentBuilder_build(
        ContentBuilder_add_child(
            ContentBuilder_new(BODY, ReferenceType_Text("BadDeep")),
            ContentBuilder_build(
                ContentBuilder_add_children(
                    ContentBuilder_new(BODY, ReferenceType_Text("BadDeep child")),
                    <<Plain, BadName>>))))
InvalidUtf8 ==
    ContentBuilder_build(ContentBuilder_new(BODY_INVALID_UTF8, ReferenceType_Text("InvalidUtf8")))
Malformed ==
    ContentBuilder_build(ContentBuilder_new(BODY_MALFORMED, ReferenceType_Text("Malformed")))
EmptyChildren ==
    ContentBuilder_build(
        ContentBuilder_add_children(
            ContentBuilder_new(BODY, ReferenceType_Text("EmptyChildren")), <<>>))

DeepChild == Deep.subcontents[1][1]

\* Arguments of add_content in SpecContents.
ContentSet ==
    {Plain, Named, WithRefs, Parent, Deep, BadName, BadDeep, InvalidUtf8, Malformed,
     EmptyChildren}

\* Arguments of add_contents in SpecContents and in SpecArchive.
ContentVectors == {<<>>, <<Parent, WithRefs>>, <<NamedAsSecond, Plain>>, <<LateDeep>>}
ArchiveContentVectors == {<<WithRefs, Parent>>, <<Plain, BadDeep>>, <<InvalidUtf8>>}

FontPath == <<<<"f", "o", "n", "t", "s">>, <<"a", ".", "o", "t", "f">>>>
ImagePath == <<<<"i", "m", "g">>, <<"b", ".", "p", "n", "g">>>>
CoverPath == <<<<"i", "m", "g">>, <<"c", "o", "v", "e", "r", ".", "j", "p", "g">>>>

ResourceSet == {Resource_Font(FontPath), Resource_Image(ImagePath, "Png")}
ResourceVectors == {<<Resource_Image(ImagePath, "Png"), Resource_Font(FontPath)>>}

STYLESHEET == "body {}"
Compressions == {"Stored", "Deflated"}
ZipCompression_default == "Stored"

(***************************************************************************)
(* Initial state: EpubBuilder::new(metadata), nothing packaged yet.        *)
(***************************************************************************)
Init ==
    /\ epub = EpubBuilder_new([title |-> "Title"])
    /\ pc = "builder"
    /\ variant = "none"
    /\ options = ZipCompression_default
    /\ zip_writer = <<>>
    /\ writer = <<>>
    /\ result = None
    /\ reference = None
    /\ builder = None
    /\ returned = None
    /\ reads = <<>>

(***************************************************************************)
(* EpubBuilder operations (epub/epub_builder.rs).                          *)
(***************************************************************************)
stylesheet(bytes) ==
    /\ pc = "builder"
    /\ epub' = [epub EXCEPT !.stylesheet = Some(bytes)]
    /\ UNCHANGED <<pc, variant, options, zip_writer, writer, result, reference, builder, returned, reads>>

cover_image(path, image_type) ==
    /\ pc = "builder"
    /\ epub' = [epub EXCEPT !.cover_image = Some(Resource_Image(path, image_type))]
    /\ UNCHANGED <<pc, variant, options, zip_writer, writer, result, reference, builder, returned, reads>>

resources_len == IF is_some(epub.resources) THEN Len(unwrap(epub.resources)) ELSE 0
contents_len == IF is_some(epub.contents) THEN Len(unwrap(epub.contents)) ELSE 0

add_resource(resource) ==
    /\ pc = "builder"
    /\ resources_len + 1 <= MaxResources
    /\ epub' = IF is_some(epub.resources)
               THEN [epub EXCEPT !.resources = Some(Append(unwrap(epub.resources), resource))]
               ELSE [epub EXCEPT !.resources = Some(<<resource>>)]
    /\ UNCHANGED <<pc, variant, options, zip_writer, writer, result, reference, builder, returned, reads>>

add_resources(resources) ==
    /\ pc = "builder"
    /\ resources_len + Len(resources) <= MaxResources
    /\ epub' = IF is_some(epub.resources)
               THEN [epub EXCEPT !.resources = Some(unwrap(epub.resources) \o resources)]
               ELSE [epub EXCEPT !.resources = Some(resources)]
    /\ UNCHANGED <<pc, variant, options, zip_writer, writer, result, reference, builder, returned, reads>>

add_content(content) ==
    /\ pc = "builder"
    /\ contents_len + 1 <= MaxContents
    /\ epub' = IF is_some(epub.contents)
               THEN [epub EXCEPT !.contents = Some(Append(unwrap(epub.contents), content))]
               ELSE [epub EXCEPT !.contents = Some(<<content>>)]
    /\ UNCHANGED <<pc, variant, options, zip_writer, writer, result, reference, builder, returned, reads>>

add_contents(contents) ==
    /\ pc = "builder"
    /\ contents_len + Len(contents) <= MaxContents
    /\ epub' = IF is_some(epub.contents)
               THEN [epub EXCEPT !.contents = Some(unwrap(epub.contents) \o contents)]
               ELSE [epub EXCEPT !.contents = Some(contents)]
    /\ UNCHANGED <<pc, variant, options, zip_writer, writer, result, reference, builder, returned, reads>>

\* EpubFile::new of output/creator.rs: an empty in-memory archive.
EpubFile_new(compression) ==
    /\ variant' = "sync"
    /\ options' = compression
    /\ zip_writer' = <<>>
    /\ pc' = "mandatory"
    /\ UNCHANGED <<epub, writer, result, reference, builder, returned, reads>>

\* EpubFile::new of output/creator_async.rs.
async_EpubFile_new(compression) ==
    /\ variant' = "async"
    /\ options' = compression
    /\ zip_writer' = <<>>
    /\ pc' = "mandatory"
    /\ UNCHANGED <<epub, writer, result, reference, builder, returned, reads>>

create_with_compression(compression) ==
    /\ pc = "builder"
    /\ EpubFile_new(compression)

create == create_with_compression(ZipCompression_default)

async_create_with_compression(compression) ==
    /\ pc = "builder"
    /\ async_EpubFile_new(compression)

async_create == async_create_with_compression(ZipCompression_default)

(***************************************************************************)
(* EpubFile::create, one action per step of output/creator.rs.  A step     *)
(* that fails sets result and leaves pc at the failing step; the           *)
(* in-memory archive is dropped with the EpubFile, so zip_writer then      *)
(* shows what had been buffered.  Failures of the ZIP writer, of reading   *)
(* a path and of formatting the generated package and navigation documents *)
(* are choices of the environment.                                         *)
(***************************************************************************)
running(v, at) == variant = v /\ pc = at /\ result = None

\* EpubFile::add_file of creator.rs: start_file(path, self.options), write_all.
add_file(zip, file_content, file_options) ==
    Append(zip, [filepath |-> file_content.filepath,
                 bytes |-> file_content.bytes,
                 compression |-> file_options])

RECURSIVE add_files_last_first(_, _, _)
\* add_files that adds the files from the last to the first.
add_files_last_first(zip, file_contents, file_options) ==
    IF file_contents = <<>> THEN zip
    ELSE add_file(add_files_last_first(zip, Tail(file_contents), file_options),
                  Head(file_contents), file_options)

RECURSIVE add_files(_, _, _)
add_files(zip, file_contents, file_options) ==
    IF file_contents = <<>> THEN zip
    ELSE add_files(add_file(zip, Head(file_contents), file_options),
                   Tail(file_contents), file_options)

\* An add_file that stores every entry uncompressed.
async_add_file_stored(zip, file_content, compression) ==
    Append(zip, [filepath |-> file_content.filepath,
                 bytes |-> file_content.bytes,
                 compression |-> "Stored"])

\* EpubFile::add_file of creator_async.rs: ZipEntryBuilder::new(path,
\* self.compression), write_entry_whole.
async_add_file(zip, file_content, compression) ==
    Append(zip, [filepath |-> file_content.filepath,
                 bytes |-> file_content.bytes,
                 compression |-> compression])

RECURSIVE async_add_files(_, _, _)
async_add_files(zip, file_contents, compression) ==
    IF file_contents = <<>> THEN zip
    ELSE async_add_files(async_add_file(zip, Head(file_contents), compression),
                         Tail(file_contents), compression)

mimetype == FileContent_new(MIMETYPE_PATH, [data |-> "application/epub+zip"])
container == FileContent_new(CONTAINER_PATH, [data |-> "container"])
display_options == FileContent_new(DISPLAY_OPTIONS_PATH, [data |-> "display_options"])

fail(kind) ==
    /\ result' = Some(kind)
    /\ UNCHANGED <<epub, pc, variant, options, writer, reference, builder, returned, reads>>

\* A step that writes what it buffers through to the sink at once.
buffer_files_write_through(zipped, file_contents, next) ==
    \/ /\ zip_writer' = zipped
       /\ writer' = zipped
       /\ pc' = next
       /\ UNCHANGED <<epub, variant, options, result, reference, builder, returned, reads>>
    \/ \E k \in 1..Len(file_contents) :
           /\ zip_writer' = SubSeq(zipped, 1, Len(zip_writer) + k - 1)
           /\ fail("Zip")

\* The step buffers file_contents and goes on to next, or the ZIP writer
\* refuses one of them: the ones before it stay buffered.
buffer_files(zipped, file_contents, next) ==
    \/ /\ zip_writer' = zipped
       /\ pc' = next
       /\ UNCHANGED <<epub, variant, options, writer, result, reference, builder, returned, reads>>
    \/ \E k \in 1..Len(file_contents) :
           /\ zip_writer' = SubSeq(zipped, 1, Len(zip_writer) + k - 1)
           /\ fail("Zip")

\* Lines 92-94.
create_mandatory ==
    /\ running("sync", "mandatory")
    /\ LET files == <<mimetype, container, display_options>>
       IN buffer_files(add_files(zip_writer, files, options), files, "stylesheet")

\* Lines 97-99.
create_stylesheet ==
    /\ running("sync", "stylesheet")
    /\ LET files == IF is_some(epub.stylesheet)
                    THEN <<FileContent_new(OEBPS \o STYLE_CSS,
                                           [data |-> unwrap(epub.stylesheet)])>>
                    ELSE <<>>
       IN buffer_files(add_files(zip_writer, files, options), files, "cover_image")

\* Lines 101-103.
create_cover_image ==
    /\ running("sync", "cover_image")
    /\ IF is_some(epub.cover_image)
       THEN \E readable \in BOOLEAN :
                LET read == Resource_file_content(unwrap(epub.cover_image), readable)
                IN IF is_some(read.err)
                   THEN fail(unwrap(read.err)) /\ UNCHANGED zip_writer
                   ELSE buffer_files(add_files(zip_writer, read.file, options),
                                     read.file, "resources")
       ELSE buffer_files(zip_writer, <<>>, "resources")

RECURSIVE collect_file_content(_, _)
\* resources.iter().map(file_content).collect::<Result<Vec<_>>>(): the files,
\* or the error of the first resource that fails.
collect_file_content(resources, readable) ==
    IF resources = <<>> THEN [err |-> None, files |-> <<>>]
    ELSE LET read == Resource_file_content(Head(resources), Head(readable))
         IN IF is_some(read.err) THEN [err |-> read.err, files |-> <<>>]
            ELSE LET rest == collect_file_content(Tail(resources), Tail(readable))
                 IN [err |-> rest.err, files |-> read.file \o rest.files]

\* Lines 105-112.
create_resources ==
    /\ running("sync", "resources")
    /\ IF is_some(epub.resources)
       THEN \E readable \in [1..Len(unwrap(epub.resources)) -> BOOLEAN] :
                LET contents == collect_file_content(unwrap(epub.resources), readable)
                IN IF is_some(contents.err)
                   THEN fail(unwrap(contents.err)) /\ UNCHANGED zip_writer
                   ELSE buffer_files(add_files(zip_writer, contents.files, options),
                                     contents.files, "contents")
       ELSE buffer_files(zip_writer, <<>>, "contents")

\* Lines 115-124.
create_contents ==
    /\ running("sync", "contents")
    /\ IF is_some(epub.contents)
       THEN LET file_contents == file_content_subcontents(
                                     unwrap(epub.contents), 0, is_some(epub.stylesheet))
            IN IF is_some(file_contents.err)
               THEN fail(unwrap(file_contents.err)) /\ UNCHANGED zip_writer
               ELSE buffer_files(add_files(zip_writer, file_contents.files, options),
                                 file_contents.files, "content_opf")
       ELSE buffer_files(zip_writer, <<>>, "content_opf")

\* xml::format of a generated document: the reader accepts it or not.
format_generated(file_content, well_formed) ==
    IF well_formed
    THEN [err |-> None,
          file |-> <<[file_content EXCEPT !.bytes.formatted = TRUE]>>,
          task |-> "caller"]
    ELSE [err |-> Some("XmlParser"), file |-> <<>>, task |-> "caller"]

\* Lines 127-129.
create_content_opf ==
    /\ running("sync", "content_opf")
    /\ LET opf == content_opf(epub)
       IN IF is_some(opf.err)
          THEN fail(unwrap(opf.err)) /\ UNCHANGED zip_writer
          ELSE \E well_formed \in BOOLEAN :
                   LET formatted == format_generated(unwrap(opf.file), well_formed)
                   IN IF is_some(formatted.err)
                      THEN fail(unwrap(formatted.err)) /\ UNCHANGED zip_writer
                      ELSE buffer_files(add_files(zip_writer, formatted.file, options),
                                        formatted.file, "toc_ncx")

\* Lines 131-133.
create_toc_ncx ==
    /\ running("sync", "toc_ncx")
    /\ LET ncx == toc_ncx(epub)
       IN IF is_some(ncx.err)
          THEN fail(unwrap(ncx.err)) /\ UNCHANGED zip_writer
          ELSE \E well_formed \in BOOLEAN :
                   LET formatted == format_generated(unwrap(ncx.file), well_formed)
                   IN IF is_some(formatted.err)
                      THEN fail(unwrap(formatted.err)) /\ UNCHANGED zip_writer
                      ELSE buffer_files(add_files(zip_writer, formatted.file, options),
                                        formatted.file, "finish")

\* Lines 136-139: finish the archive, then write_all to the caller's sink.
\* write_all may fail after part of the buffer went out.
create_finish ==
    /\ running("sync", "finish")
    /\ \/ fail("Zip") /\ UNCHANGED zip_writer
       \/ /\ writer' = writer \o zip_writer
          /\ result' = Some("Ok")
          /\ pc' = "done"
          /\ UNCHANGED <<epub, variant, options, zip_writer, reference, builder, returned, reads>>
       \/ \E k \in 0..(Len(zip_writer) - 1) :
              /\ writer' = writer \o SubSeq(zip_writer, 1, k)
              /\ result' = Some("Io")
              /\ UNCHANGED <<epub, pc, variant, options, zip_writer, reference, builder, returned, reads>>

(***************************************************************************)
(* EpubFile::create of output/creator_async.rs, step by step.              *)
(***************************************************************************)
\* Lines 74-76.
async_create_mandatory ==
    /\ running("async", "mandatory")
    /\ LET files == <<mimetype, container, display_options>>
       IN buffer_files(async_add_files(zip_writer, files, options), files, "stylesheet")

\* Lines 78-81.
async_create_stylesheet ==
    /\ running("async", "stylesheet")
    /\ LET files == IF is_some(epub.stylesheet)
                    THEN <<FileContent_new(OEBPS \o STYLE_CSS,
                                           [data |-> unwrap(epub.stylesheet)])>>
                    ELSE <<>>
       IN buffer_files(async_add_files(zip_writer, files, options), files, "cover_image")

\* Lines 83-86.
async_create_cover_image ==
    /\ running("async", "cover_image")
    /\ IF is_some(epub.cover_image)
       THEN \E readable \in BOOLEAN :
                LET read == Resource_file_content(unwrap(epub.cover_image), readable)
                IN IF is_some(read.err)
                   THEN fail(unwrap(read.err)) /\ UNCHANGED zip_writer
                   ELSE buffer_files(async_add_files(zip_writer, read.file, options),
                                     read.file, "resources")
       ELSE buffer_files(zip_writer, <<>>, "resources")

\* One poll of the future of resource.async_file_content(): a future not
\* polled before fails at once on a path without a file name and else hands
\* the read to tokio::fs::read; outcome is what the read has come to by now.
poll_async_file_content(resource, status, outcome) ==
    IF status = "ready" THEN [err |-> None, status |-> "ready"]
    ELSE IF status = "created" /\ is_some(Resource_filename(resource).err)
    THEN [err |-> Resource_filename(resource).err, status |-> "failed"]
    ELSE IF outcome = "io" THEN [err |-> Some("Io"), status |-> "failed"]
    ELSE IF outcome = "ok" THEN [err |-> None, status |-> "ready"]
    ELSE [err |-> None, status |-> "pending"]

RECURSIVE try_join_all(_, _, _, _)
\* One poll of future::try_join_all(contents), from future i on: the futures
\* are polled in declared order; the first one that is ready with an error
\* ends the poll with that error, and the futures behind it are not polled
\* but dropped as they are.
try_join_all(resources, statuses, outcomes, i) ==
    IF i > Len(resources) THEN [err |-> None, reads |-> statuses]
    ELSE LET polled == poll_async_file_content(resources[i], statuses[i], outcomes[i])
         IN IF is_some(polled.err)
            THEN [err |-> polled.err, reads |-> [statuses EXCEPT ![i] = polled.status]]
            ELSE try_join_all(resources, [statuses EXCEPT ![i] = polled.status],
                              outcomes, i + 1)

ReadOutcomes == {"pending", "ok", "io"}

\* Lines 89-95: one future per resource, none polled yet.
async_create_resources ==
    /\ running("async", "resources")
    /\ IF is_some(epub.resources)
       THEN /\ reads' = [i \in 1..Len(unwrap(epub.resources)) |-> "created"]
            /\ pc' = "join"
            /\ UNCHANGED <<epub, variant, options, zip_writer, writer, result,
                           reference, builder, returned>>
       ELSE buffer_files(zip_writer, <<>>, "contents")

\* Line 97, one poll of try_join_all(contents).await?: an error ends create.
async_try_join_all ==
    /\ running("async", "join")
    /\ \E i \in 1..Len(reads) : reads[i] /= "ready"
    /\ \E outcomes \in [1..Len(reads) -> ReadOutcomes] :
           LET polled == try_join_all(unwrap(epub.resources), reads, outcomes, 1)
           IN /\ reads' = polled.reads
              /\ result' = polled.err
    /\ UNCHANGED <<epub, pc, variant, options, zip_writer, writer,
                   reference, builder, returned>>

\* An add of the resources that does not wait for every read: it adds the
\* files of the reads that have ended by now.
async_add_resources_as_reads_end ==
    /\ running("async", "join")
    /\ \E i \in 1..Len(reads) : reads[i] = "ready"
    /\ LET resources == unwrap(epub.resources)
           ended == SelectSeq([i \in 1..Len(resources) |->
                                  [resource |-> resources[i], status |-> reads[i]]],
                              LAMBDA read : read.status = "ready")
           contents == [i \in 1..Len(ended) |->
                           unwrap(Resource_file_content(ended[i].resource, TRUE).file)]
       IN buffer_files(async_add_files(zip_writer, contents, options), contents, "contents")

\* Lines 97-98: every read is ready, the files are added in declared order.
async_add_resources ==
    /\ running("async", "join")
    /\ \A i \in 1..Len(reads) : reads[i] = "ready"
    /\ LET resources == unwrap(epub.resources)
           contents == [i \in 1..Len(resources) |->
                           unwrap(Resource_file_content(resources[i], TRUE).file)]
       IN buffer_files(async_add_files(zip_writer, contents, options), contents, "contents")

\* Lines 102-113.  A formatting task that does not come back gives
\* Error::TokioJoinError.
async_create_contents ==
    /\ running("async", "contents")
    /\ IF is_some(epub.contents)
       THEN LET file_contents == async_file_content_contents(
                                     unwrap(epub.contents), 0, is_some(epub.stylesheet))
            IN IF is_some(file_contents.err)
               THEN fail(unwrap(file_contents.err)) /\ UNCHANGED zip_writer
               ELSE \/ buffer_files(
                           async_add_files(zip_writer, file_contents.files, options),
                           file_contents.files, "content_opf")
                    \/ /\ unwrap(epub.contents) /= <<>>
                       /\ fail("TokioJoinError") /\ UNCHANGED zip_writer
       ELSE buffer_files(zip_writer, <<>>, "content_opf")

\* xml::async_format of a generated document.
async_format_generated(file_content, outcome) ==
    IF outcome = "Ok"
    THEN [err |-> None,
          file |-> <<[file_content EXCEPT !.bytes.formatted = TRUE]>>,
          task |-> "worker"]
    ELSE [err |-> Some(outcome), file |-> <<>>, task |-> "worker"]

\* Lines 116-118.
async_create_content_opf ==
    /\ running("async", "content_opf")
    /\ LET opf == content_opf(epub)
       IN IF is_some(opf.err)
          THEN fail(unwrap(opf.err)) /\ UNCHANGED zip_writer
          ELSE \E outcome \in {"Ok", "XmlParser", "TokioJoinError"} :
                   LET formatted == async_format_generated(unwrap(opf.file), outcome)
                   IN IF is_some(formatted.err)
                      THEN fail(unwrap(formatted.err)) /\ UNCHANGED zip_writer
                      ELSE buffer_files(
                               async_add_files(zip_writer, formatted.file, options),
                               formatted.file, "toc_ncx")

\* Lines 121-123.
async_create_toc_ncx ==
    /\ running("async", "toc_ncx")
    /\ LET ncx == toc_ncx(epub)
       IN IF is_some(ncx.err)
          THEN fail(unwrap(ncx.err)) /\ UNCHANGED zip_writer
          ELSE \E outcome \in {"Ok", "XmlParser", "TokioJoinError"} :
                   LET formatted == async_format_generated(unwrap(ncx.file), outcome)
                   IN IF is_some(formatted.err)
                      THEN fail(unwrap(formatted.err)) /\ UNCHANGED zip_writer
                      ELSE buffer_files(
                               async_add_files(zip_writer, formatted.file, options),
                               formatted.file, "finish")

\* Lines 126-131.
async_create_finish ==
    /\ running("async", "finish")
    /\ \/ fail("Zip") /\ UNCHANGED zip_writer
       \/ /\ writer' = writer \o zip_writer
          /\ result' = Some("Ok")
          /\ pc' = "done"
          /\ UNCHANGED <<epub, variant, options, zip_writer, reference, builder, returned, reads>>
       \/ \E k \in 0..(Len(zip_writer) - 1) :
              /\ writer' = writer \o SubSeq(zip_writer, 1, k)
              /\ result' = Some("Io")
              /\ UNCHANGED <<epub, pc, variant, options, zip_writer, reference, builder, returned, reads>>

(***************************************************************************)
(* Specifications.  SpecContents builds documents from the Content values  *)
(* and packages them; SpecArchive builds documents with stylesheet, cover  *)
(* and resources around a few content vectors and packages them.           *)
(***************************************************************************)
(***************************************************************************)
(* The fluent builders in the hands of a caller.  reference is the         *)
(* ContentReference and builder the ContentBuilder of the expression the   *)
(* caller is writing; a value handed to another builder is moved into it.  *)
(* returned is the value of the last direct call of a function of the      *)
(* crate, as the unit tests of the crate call them; it is dropped when a   *)
(* builder is used again.                                                  *)
(***************************************************************************)
MaxReferenceNodes == 4
MaxBuilderNodes == 4

RECURSIVE reference_nodes(_)
\* The number of ContentReferences in a list, nested ones included.
reference_nodes(content_references) ==
    IF content_references = <<>> THEN 0
    ELSE 1
         + (IF is_some(Head(content_references).subcontent_references)
            THEN reference_nodes(unwrap(Head(content_references).subcontent_references))
            ELSE 0)
         + reference_nodes(Tail(content_references))

RECURSIVE content_nodes(_)
\* The number of Contents in a list, nested ones included.
content_nodes(contents) ==
    IF contents = <<>> THEN 0
    ELSE 1
         + (IF is_some(Head(contents).subcontents)
            THEN content_nodes(unwrap(Head(contents).subcontents))
            ELSE 0)
         + content_nodes(Tail(contents))

references_in(content) ==
    IF is_some(content.content_references) THEN unwrap(content.content_references)
    ELSE <<>>

RECURSIVE all_references_in(_)
\* The reference lists of the Contents of a list, nested ones included.
all_references_in(contents) ==
    IF contents = <<>> THEN <<>>
    ELSE references_in(Head(contents))
         \o (IF is_some(Head(contents).subcontents)
             THEN all_references_in(unwrap(Head(contents).subcontents))
             ELSE <<>>)
         \o all_references_in(Tail(contents))

\* The references the caller holds: those moved into the builder and the
\* one under construction.
held_references ==
    (IF builder = None THEN <<>> ELSE all_references_in(<<unwrap(builder)>>))
    \o (IF reference = None THEN <<>> ELSE <<unwrap(reference)>>)

\* The nodes the caller holds while a builder is under construction: its
\* Contents and all references.
held_nodes ==
    (IF builder = None THEN 0 ELSE content_nodes(<<unwrap(builder)>>))
    + reference_nodes(held_references)

\* n more ContentReferences fit the bounds.
references_fit(n) ==
    /\ (IF reference = None THEN 0 ELSE reference_nodes(<<unwrap(reference)>>)) + n
           <= MaxReferenceNodes
    /\ builder /= None => held_nodes + n <= MaxBuilderNodes

building == pc = "builder"

\* ContentReference::new(title).
reference_new(title) ==
    /\ building
    /\ reference = None
    /\ references_fit(1)
    /\ reference' = Some(ContentReference_new(title))
    /\ returned' = None
    /\ UNCHANGED <<epub, pc, variant, options, zip_writer, writer, result, builder, reads>>

\* .id(name) on the reference under construction.
reference_id(name) ==
    /\ building
    /\ reference /= None
    /\ unwrap(reference).id = None
    /\ reference' = Some(ContentReference_id(unwrap(reference), name))
    /\ returned' = None
    /\ UNCHANGED <<epub, pc, variant, options, zip_writer, writer, result, builder, reads>>

\* .add_child(content_reference) on the reference under construction.
reference_add_child(child) ==
    /\ building
    /\ reference /= None
    /\ references_fit(reference_nodes(<<child>>))
    /\ reference' = Some(ContentReference_add_child(unwrap(reference), child))
    /\ returned' = None
    /\ UNCHANGED <<epub, pc, variant, options, zip_writer, writer, result, builder, reads>>

\* .add_children(content_references) on the reference under construction.
reference_add_children(children) ==
    /\ building
    /\ reference /= None
    /\ references_fit(reference_nodes(children))
    /\ reference' = Some(ContentReference_add_children(unwrap(reference), children))
    /\ returned' = None
    /\ UNCHANGED <<epub, pc, variant, options, zip_writer, writer, result, builder, reads>>

\* ContentReference::new(title).add_child(reference): the reference under
\* construction becomes the first child of a new one.
reference_nest(title) ==
    /\ building
    /\ reference /= None
    /\ references_fit(1)
    /\ reference' = Some(ContentReference_add_child(ContentReference_new(title),
                                                    unwrap(reference)))
    /\ returned' = None
    /\ UNCHANGED <<epub, pc, variant, options, zip_writer, writer, result, builder, reads>>

\* ContentBuilder::new(body, reference_type).
builder_new(body, reference_type) ==
    /\ building
    /\ builder = None
    /\ builder' = Some(ContentBuilder_new(body, reference_type))
    /\ returned' = None
    /\ UNCHANGED <<epub, pc, variant, options, zip_writer, writer, result, reference, reads>>

\* .filename(name) on the builder under construction.
builder_filename(name) ==
    /\ building
    /\ builder /= None
    /\ unwrap(builder).filename = None
    /\ builder' = Some(ContentBuilder_filename(unwrap(builder), name))
    /\ returned' = None
    /\ UNCHANGED <<epub, pc, variant, options, zip_writer, writer, result, reference, reads>>

\* .add_content_reference(reference): the reference is moved into the builder.
builder_add_content_reference ==
    /\ building
    /\ builder /= None
    /\ reference /= None
    /\ builder' = Some(ContentBuilder_add_content_reference(unwrap(builder),
                                                            unwrap(reference)))
    /\ reference' = None
    /\ returned' = None
    /\ UNCHANGED <<epub, pc, variant, options, zip_writer, writer, result, reads>>

\* .add_content_references(content_references) on the builder.
builder_add_content_references(content_references) ==
    /\ building
    /\ builder /= None
    /\ held_nodes + reference_nodes(content_references) <= MaxBuilderNodes
    /\ builder' = Some(ContentBuilder_add_content_references(unwrap(builder),
                                                             content_references))
    /\ returned' = None
    /\ UNCHANGED <<epub, pc, variant, options, zip_writer, writer, result, reference, reads>>

\* .add_child(content) on the builder.
builder_add_child(content) ==
    /\ building
    /\ builder /= None
    /\ held_nodes + content_nodes(<<content>>)
           + reference_nodes(all_references_in(<<content>>)) <= MaxBuilderNodes
    /\ builder' = Some(ContentBuilder_add_child(unwrap(builder), content))
    /\ returned' = None
    /\ UNCHANGED <<epub, pc, variant, options, zip_writer, writer, result, reference, reads>>

\* .add_children(contents) on the builder.
builder_add_children(contents) ==
    /\ building
    /\ builder /= None
    /\ held_nodes + content_nodes(contents)
           + reference_nodes(all_references_in(contents)) <= MaxBuilderNodes
    /\ builder' = Some(ContentBuilder_add_children(unwrap(builder), contents))
    /\ returned' = None
    /\ UNCHANGED <<epub, pc, variant, options, zip_writer, writer, result, reference, reads>>

\* ContentBuilder::new(body, reference_type).add_child(builder.build()): the
\* content under construction becomes the first child of a new one.
builder_nest(body, reference_type) ==
    /\ building
    /\ builder /= None
    /\ held_nodes + 1 <= MaxBuilderNodes
    /\ builder' = Some(ContentBuilder_add_child(
                           ContentBuilder_new(body, reference_type),
                           ContentBuilder_build(unwrap(builder))))
    /\ returned' = None
    /\ UNCHANGED <<epub, pc, variant, options, zip_writer, writer, result, reference, reads>>

\* A direct call leaves everything but returned as it is.
returns(call, value) ==
    /\ building
    /\ returned' = Some([call |-> call, value |-> value])
    /\ UNCHANGED <<epub, pc, variant, options, zip_writer, writer, result,
                   reference, builder, reads>>

\* reference.level()
call_ContentReference_level ==
    /\ reference /= None
    /\ returns("ContentReference::level",
               IF ContentReference_level_panics(unwrap(reference))
               THEN [panicked |-> TRUE, level |-> 0]
               ELSE [panicked |-> FALSE,
                     level |-> ContentReference_level(unwrap(reference))])

\* builder.build().level()
call_Content_level ==
    /\ builder /= None
    /\ returns("Content::level",
               IF Content_level_panics(ContentBuilder_build(unwrap(builder)))
               THEN [panicked |-> TRUE, level |-> 0]
               ELSE [panicked |-> FALSE,
                     level |-> Content_level(ContentBuilder_build(unwrap(builder)))])

\* builder.build().level_reference_content()
call_Content_level_reference_content ==
    /\ builder /= None
    /\ returns("Content::level_reference_content",
               IF Content_level_reference_content_panics(
                      ContentBuilder_build(unwrap(builder)))
               THEN [panicked |-> TRUE, level |-> 0]
               ELSE [panicked |-> FALSE,
                     level |-> Content_level_reference_content(
                                   ContentBuilder_build(unwrap(builder)))])

\* builder.build().xhtml(text, add_stylesheet)
call_Content_xhtml(text, add_stylesheet) ==
    /\ builder /= None
    /\ returns("Content::xhtml",
               [text |-> text,
                add_stylesheet |-> add_stylesheet,
                xhtml |-> Content_xhtml(ContentBuilder_build(unwrap(builder)),
                                        text, add_stylesheet)])

\* builder.build().async_file_content(&mut 0, add_stylesheet).await: which
\* task formatted each document it gives, in the order of the documents.
call_Content_async_file_content(add_stylesheet) ==
    /\ builder /= None
    /\ LET res == Content_async_file_content(ContentBuilder_build(unwrap(builder)),
                                             0, add_stylesheet)
       IN returns("Content::async_file_content",
                  [err |-> res.err,
                   paths |-> [i \in 1..Len(res.files) |-> res.files[i].filepath],
                   tasks |-> res.tasks])

\* content_references_to_nav_point(current_xhtml, &mut play_order, "",
\* &[reference, following..], &mut 0)
call_content_references_to_nav_point(current_xhtml, play_order, following) ==
    /\ reference /= None
    /\ returns("content_references_to_nav_point",
               [current_xhtml |-> current_xhtml,
                play_order |-> play_order,
                content_references |-> <<unwrap(reference)>> \o following,
                nav_points |-> content_references_to_nav_point(
                                   current_xhtml, play_order, <<>>,
                                   <<unwrap(reference)>> \o following, 0)])

Package ==
    \/ create_mandatory
    \/ create_stylesheet
    \/ create_cover_image
    \/ create_resources
    \/ create_contents
    \/ create_content_opf
    \/ create_toc_ncx
    \/ create_finish
    \/ async_create_mandatory
    \/ async_create_stylesheet
    \/ async_create_cover_image
    \/ async_create_resources
    \/ async_create_contents
    \/ async_create_content_opf
    \/ async_create_toc_ncx
    \/ async_create_finish

\* The steps of async create that only a document with resources takes.
JoinResources ==
    \/ async_try_join_all
    \/ async_add_resources

Start ==
    \/ create
    \/ async_create
    \/ \E compression \in Compressions : create_with_compression(compression)
    \/ \E compression \in Compressions : async_create_with_compression(compression)

NextContents ==
    \/ stylesheet(STYLESHEET)
    \/ \E content \in ContentSet : add_content(content)
    \/ \E contents \in ContentVectors : add_contents(contents)
    \/ Start
    \/ Package

NextArchive ==
    \/ stylesheet(STYLESHEET)
    \/ cover_image(CoverPath, "Jpg")
    \/ \E resource \in ResourceSet : add_resource(resource)
    \/ \E resources \in ResourceVectors : add_resources(resources)
    \/ \E contents \in ArchiveContentVectors : contents_len = 0 /\ add_contents(contents)
    \/ Start
    \/ Package
    \/ JoinResources

\* Values handed to the fluent builders in SpecBuilders.
ReferenceChildren == {RefA, RefFour}
ReferenceVectors == {<<>>, <<RefA, RefFour>>}
ContentChildren == {Plain, DeepChild}
ContentChildVectors == {<<>>, <<Plain, Named>>}
SOME_XHTML == <<"s", "o", "m", "e">> \o XHTML_EXT
DirectTexts == {BODY, <<XML_DECL>> \o BODY}

NextReferences ==
    \/ reference_new("Ref A")
    \/ reference_id(<<"a", "n", "c", "h", "o", "r">>)
    \/ \E child \in ReferenceChildren : reference_add_child(child)
    \/ \E children \in ReferenceVectors : reference_add_children(children)
    \/ reference_nest("Ref A")
    \/ call_ContentReference_level
    \/ \E following \in {<<>>, <<RefFour>>} :
           call_content_references_to_nav_point(<<5, SOME_XHTML>>, 10, following)

NextBuilders ==
    \/ builder /= None /\ reference_new("Ref A")
    \/ \E child \in ReferenceChildren : reference_add_child(child)
    \/ \E children \in ReferenceVectors : reference_add_children(children)
    \/ epub.contents = None /\ epub.resources = None
           /\ builder_new(BODY, ReferenceType_Text("Built"))
    \/ \E content \in ContentChildren : builder = None /\ add_content(content)
    \/ \E contents \in ContentChildVectors : builder = None /\ add_contents(contents)
    \/ \E resource \in ResourceSet : builder = None /\ add_resource(resource)
    \/ \E resources \in ResourceVectors : builder = None /\ add_resources(resources)
    \/ builder_filename(<<"b", "u", "i", "l", "t">> \o XHTML_EXT)
    \/ builder_add_content_reference
    \/ \E content_references \in ReferenceVectors :
           builder_add_content_references(content_references)
    \/ \E content \in ContentChildren : builder_add_child(content)
    \/ \E contents \in ContentChildVectors : builder_add_children(contents)
    \/ builder_nest(BODY, ReferenceType_Text("Outer"))
    \/ call_ContentReference_level
    \/ call_Content_level
    \/ call_Content_level_reference_content
    \/ \E text \in DirectTexts, add_stylesheet \in BOOLEAN :
           call_Content_xhtml(text, add_stylesheet)
    \/ \E add_stylesheet \in BOOLEAN : call_Content_async_file_content(add_stylesheet)

SpecContents == Init /\ [][NextContents]_vars

SpecArchive == Init /\ [][NextArchive]_vars

SpecReferences == Init /\ [][NextReferences]_vars

SpecBuilders == Init /\ [][NextBuilders]_vars

(***************************************************************************)
(* Vocabulary of the properties.  These definitions describe the document  *)
(* and the archive directly; they use none of the walks above.             *)
(***************************************************************************)
Forest == IF is_some(epub.contents) THEN unwrap(epub.contents) ELSE <<>>

children_of(content) ==
    IF is_some(content.subcontents) THEN unwrap(content.subcontents) ELSE <<>>

references_of(content) ==
    IF is_some(content.content_references) THEN unwrap(content.content_references) ELSE <<>>

RECURSIVE PreOrder(_)
\* The Content nodes of a forest: node, its children left to right, next sibling.
PreOrder(contents) ==
    IF contents = <<>> THEN <<>>
    ELSE <<Head(contents)>> \o PreOrder(children_of(Head(contents)))
         \o PreOrder(Tail(contents))

RECURSIVE CountReferences(_)
\* The number of ContentReference nodes in a list of references, at any depth.
CountReferences(content_references) ==
    IF content_references = <<>> THEN 0
    ELSE 1
         + CountReferences(
               IF is_some(Head(content_references).subcontent_references)
               THEN unwrap(Head(content_references).subcontent_references)
               ELSE <<>>)
         + CountReferences(Tail(content_references))

RECURSIVE SumReferences(_)
SumReferences(nodes) ==
    IF nodes = <<>> THEN 0
    ELSE CountReferences(references_of(Head(nodes))) + SumReferences(Tail(nodes))

\* k written in decimal, for k below one hundred.
Decimal(k) ==
    IF k < 10 THEN <<DigitChars[k + 1]>>
    ELSE <<DigitChars[(k \div 10) + 1], DigitChars[(k % 10) + 1]>>

\* k written with exactly two digits, for k below one hundred.
TwoDigits(k) == <<DigitChars[(k \div 10) + 1], DigitChars[(k % 10) + 1]>>

\* The file name of the k-th Content node in pre-order.
NumberedName(k, content) ==
    IF content.filename = None
    THEN <<"c">> \o TwoDigits(k) \o XHTML_EXT
    ELSE content.filename[1]

NumberedNames(contents) ==
    [k \in 1..Len(PreOrder(contents)) |-> NumberedName(k, PreOrder(contents)[k])]

HasInvalidFilename(contents) ==
    \E k \in 1..Len(PreOrder(contents)) :
        /\ PreOrder(contents)[k].filename /= None
        /\ ~ends_with(PreOrder(contents)[k].filename[1], XHTML_EXT)

IsContentDocument(entry) == "xhtml" \in DOMAIN entry.bytes
IsPackageDocument(entry) == "manifest" \in DOMAIN entry.bytes
IsNavigationDocument(entry) == "navMap" \in DOMAIN entry.bytes

ContentDocuments(archive) == SelectSeq(archive, IsContentDocument)
PackageDocuments(archive) == SelectSeq(archive, IsPackageDocument)
NavigationDocuments(archive) == SelectSeq(archive, IsNavigationDocument)

Paths(archive) == [i \in 1..Len(archive) |-> archive[i].filepath]
Hrefs(items) == [i \in 1..Len(items) |-> items[i].href]
Idrefs(items) == [i \in 1..Len(items) |-> items[i].idref]

IsContentItem(item) == item.media_type = "application/xhtml+xml"
ManifestContentHrefs(opf) == Hrefs(SelectSeq(opf.manifest, IsContentItem))

WithoutOEBPS(path) == SubSeq(path, Len(OEBPS) + 1, Len(path))

RECURSIVE ReferenceNavPoints(_)
\* The navPoints of references, nested ones included, in document order.
ReferenceNavPoints(nav_points) ==
    IF nav_points = <<>> THEN <<>>
    ELSE <<Head(nav_points)>>
         \o ReferenceNavPoints(Head(nav_points).subcontent_references)
         \o ReferenceNavPoints(Tail(nav_points))

RECURSIVE ContentNavPoints(_)
\* The navPoints of Content nodes in document order.
ContentNavPoints(nav_points) ==
    IF nav_points = <<>> THEN <<>>
    ELSE <<Head(nav_points)>> \o ContentNavPoints(Head(nav_points).subs)
         \o ContentNavPoints(Tail(nav_points))

RECURSIVE PlayOrders(_)
\* The playOrder attributes of a navMap read in document order.
PlayOrders(nav_points) ==
    IF nav_points = <<>> THEN <<>>
    ELSE <<Head(nav_points).playOrder>>
         \o [i \in 1..Len(ReferenceNavPoints(Head(nav_points).content_references)) |->
                 ReferenceNavPoints(Head(nav_points).content_references)[i].playOrder]
         \o PlayOrders(Head(nav_points).subs)
         \o PlayOrders(Tail(nav_points))

\* The number between "navPoint-" and the first dash after it.
IdNumber(id) ==
    LET rest == SubSeq(id, Len(NAVPOINT) + 1, Len(id))
        dashes == {i \in 1..Len(rest) : rest[i] = "-"}
        stop == IF dashes = {} THEN Len(rest) + 1
                ELSE CHOOSE i \in dashes : \A j \in dashes : i <= j
    IN SubSeq(rest, 1, stop - 1)

(***************************************************************************)
(* Properties of the file names.                                           *)
(***************************************************************************)
NavigationSrcs(ncx) ==
    [k \in 1..Len(ContentNavPoints(ncx.navMap)) |-> ContentNavPoints(ncx.navMap)[k].src]

ContentDocumentNames(archive) ==
    [k \in 1..Len(ContentDocuments(archive)) |->
         WithoutOEBPS(ContentDocuments(archive)[k].filepath)]

\* C1: once the navigation document is in the archive, the content src of
\* the navPoint of every Content node, taken in document order, is the file
\* name under which the document of that node was written to the archive,
\* and the one the manifest and the spine of the package document list.
C1_NavPointSrcIsWrittenName ==
    \A i \in 1..Len(zip_writer) :
        IsNavigationDocument(zip_writer[i]) =>
            /\ NavigationSrcs(zip_writer[i].bytes) = ContentDocumentNames(zip_writer)
            /\ \A j \in 1..Len(zip_writer) :
                   IsPackageDocument(zip_writer[j]) =>
                       /\ NavigationSrcs(zip_writer[i].bytes)
                              = ManifestContentHrefs(zip_writer[j].bytes)
                       /\ NavigationSrcs(zip_writer[i].bytes)
                              = Idrefs(zip_writer[j].bytes.spine)

\* C2: when every explicit file name of the forest ends in .xhtml, the
\* manifest walk, the spine walk, the guide walk and the walk that emits the
\* documents, each from a counter of 0, give every Content node the same
\* name; the content items of the manifest, the itemrefs of the spine and
\* the content documents of the archive list these names in the same order.
C2_WalksAgree ==
    /\ ~HasInvalidFilename(Forest) =>
           LET manifest == create_content_chain(0, epub.contents, "manifest")
               spine == create_content_chain(0, epub.contents, "spine")
               guide == create_content_chain(0, epub.contents, "guide")
               sync_files == file_content_subcontents(Forest, 0, is_some(epub.stylesheet))
               async_files == async_file_content_contents(Forest, 0, is_some(epub.stylesheet))
           IN /\ manifest.err = None /\ spine.err = None /\ guide.err = None
              /\ Hrefs(manifest.cb) = Idrefs(spine.cb)
              /\ Hrefs(manifest.cb) = Hrefs(guide.cb)
              /\ sync_files.err = None =>
                     Hrefs(manifest.cb) = [k \in 1..Len(sync_files.files) |->
                                               WithoutOEBPS(sync_files.files[k].filepath)]
              /\ async_files.err = None =>
                     Hrefs(manifest.cb) = [k \in 1..Len(async_files.files) |->
                                               WithoutOEBPS(async_files.files[k].filepath)]
    /\ \A j \in 1..Len(zip_writer) :
           IsPackageDocument(zip_writer[j]) =>
               /\ ManifestContentHrefs(zip_writer[j].bytes) = ContentDocumentNames(zip_writer)
               /\ Idrefs(zip_writer[j].bytes.spine) = ContentDocumentNames(zip_writer)
               /\ Hrefs(zip_writer[j].bytes.guide) = ContentDocumentNames(zip_writer)

\* The package document is in the archive behind the documents of a forest
\* with children, references and an explicit file name.
C2_PackageDocumentWritten ==
    /\ Forest = <<Parent, WithRefs>>
    /\ Len(ContentDocuments(zip_writer)) = 4
    /\ PackageDocuments(zip_writer) /= <<>>
    /\ Len(PackageDocuments(zip_writer)[1].bytes.spine) = 4

RECURSIVE Bare(_)
\* The forest with nothing left but its order and its explicit file names:
\* every body, title, reference type and ContentReference is taken away.
Bare(contents) ==
    [k \in 1..Len(contents) |->
        [contents[k] EXCEPT
            !.body = <<>>,
            !.reference_type = ReferenceType_Text(""),
            !.content_references = None,
            !.subcontents = IF is_some(contents[k].subcontents)
                            THEN Some(Bare(unwrap(contents[k].subcontents)))
                            ELSE None]]

ChainNames(chain) ==
    [k \in 1..Len(chain.cb) |->
        IF "href" \in DOMAIN chain.cb[k] THEN chain.cb[k].href ELSE chain.cb[k].idref]

\* C3: the file names the resolver gives from a counter of 0, its error and
\* its final counter are those it gives to the forest stripped down to its
\* order and its explicit file names, so two forests of the same order and
\* overrides are named alike; and the walks that the package document runs
\* one after the other over the same forest list identical names, whatever
\* walk ran before them.
C3_NamesDependOnOrderAndOverridesOnly ==
    /\ \A kind \in {"manifest", "spine", "guide"} :
           LET chain == create_content_chain(0, epub.contents, kind)
               bare == create_content_chain(0, Some(Bare(Forest)), kind)
           IN /\ chain.err = bare.err
              /\ chain.file_number = bare.file_number
              /\ ChainNames(chain) = ChainNames(bare)
    /\ \A j \in 1..Len(zip_writer) :
           IsPackageDocument(zip_writer[j]) =>
               LET first == create_content_chain(0, Some(Bare(Forest)), "manifest")
               IN /\ ManifestContentHrefs(zip_writer[j].bytes) = ChainNames(first)
                  /\ Idrefs(zip_writer[j].bytes.spine) = ChainNames(first)
                  /\ Hrefs(zip_writer[j].bytes.guide) = ChainNames(first)

\* The package document of a forest that has bodies, titles and references
\* to strip is in the archive.
C3_PackageDocumentOfRichForest ==
    /\ PackageDocuments(zip_writer) /= <<>>
    /\ Len(PreOrder(Forest)) >= 4
    /\ SumReferences(PreOrder(Forest)) >= 5
    /\ Bare(Forest) /= Forest
    /\ Head(Forest) = WithRefs

FilePaths(files) == [k \in 1..Len(files) |-> files[k].filepath]
UnderOEBPS(names) == [k \in 1..Len(names) |-> OEBPS \o names[k]]
IsPrefix(s, t) == Len(s) <= Len(t) /\ s = SubSeq(t, 1, Len(s))

\* C4: a walk visits the Content nodes in pre-order and counts every one of
\* them once, those with an explicit file name included: the k-th node in
\* pre-order is named c<k in two digits>.xhtml unless it has an override,
\* and the walk leaves the counter at the number of Content nodes.  This
\* holds of the walks of the package document, of the walks that emit the
\* documents, and of the content documents in the archive.
C4_PreOrderCountsEveryNode ==
    /\ \A kind \in {"manifest", "spine", "guide"} :
           LET chain == create_content_chain(0, epub.contents, kind)
           IN chain.err = None =>
                  /\ ChainNames(chain) = NumberedNames(Forest)
                  /\ chain.file_number = Len(PreOrder(Forest))
    /\ LET sync_files == file_content_subcontents(Forest, 0, is_some(epub.stylesheet))
           async_files == async_file_content_contents(Forest, 0, is_some(epub.stylesheet))
       IN /\ sync_files.err = None =>
                 /\ FilePaths(sync_files.files) = UnderOEBPS(NumberedNames(Forest))
                 /\ sync_files.number = Len(PreOrder(Forest))
          /\ async_files.err = None =>
                 /\ FilePaths(async_files.files) = UnderOEBPS(NumberedNames(Forest))
                 /\ async_files.number = Len(PreOrder(Forest))
    /\ IsPrefix(ContentDocumentNames(zip_writer), NumberedNames(Forest))
    /\ pc \in {"content_opf", "toc_ncx", "finish", "done"} =>
           ContentDocumentNames(zip_writer) = NumberedNames(Forest)

\* Six documents are in the archive; the third has an explicit file name
\* and the one after it is c04.xhtml.
C4_SixDocumentsWritten ==
    /\ Forest = <<Parent, Deep>>
    /\ Len(ContentDocuments(zip_writer)) = 6
    /\ ContentDocuments(zip_writer)[3].filepath = OEBPS \o unwrap(Named.filename)
    /\ ContentDocuments(zip_writer)[4].filepath
           = OEBPS \o <<"c", "0", "4">> \o XHTML_EXT

C6_MimetypeFirstAndStored ==
    result = Some("Ok") =>
        /\ writer /= <<>>
        /\ writer[1].filepath = MIMETYPE_PATH
        /\ writer[1].compression = "Stored"
        /\ \A i \in 2..Len(writer) : writer[i].compression = options

failed == result /= None /\ result /= Some("Ok")

\* write_all to the sink is the one failure that is not before the flush.
failed_before_flush == failed /\ ~(pc = "finish" /\ result = Some("Io"))

\* C7: when a step of a packaging call fails before the final flush (the
\* read of the cover or of a resource, the decoding of a body, the
\* formatting of a content, package or navigation document, the validation
\* of a file name, the ZIP writer), nothing has been written to the sink;
\* the sink holds bytes only once every step before the flush succeeded,
\* the navigation document being the last entry buffered.
C7_NothingWrittenBeforeFlush ==
    /\ failed_before_flush => writer = <<>>
    /\ result = None => writer = <<>>
    /\ writer /= <<>> =>
           /\ pc \in {"finish", "done"}
           /\ IsNavigationDocument(zip_writer[Len(zip_writer)])
           /\ IsPrefix(writer, zip_writer)

\* The formatting of the navigation document failed with twelve entries
\* buffered, and the sink is empty.
C7_LateFailureLeavesSinkEmpty ==
    /\ pc = "toc_ncx"
    /\ result = Some("XmlParser")
    /\ Len(zip_writer) >= 12
    /\ writer = <<>>

ResourcePath(resource) == OEBPS \o resource.path[Len(resource.path)]

\* The paths of the archive of a document, group by group.
ExpectedPaths ==
    <<MIMETYPE_PATH, CONTAINER_PATH, DISPLAY_OPTIONS_PATH>>
    \o (IF epub.stylesheet = None THEN <<>> ELSE <<OEBPS \o STYLE_CSS>>)
    \o (IF epub.cover_image = None THEN <<>>
        ELSE <<ResourcePath(epub.cover_image[1])>>)
    \o (IF epub.resources = None THEN <<>>
        ELSE [k \in 1..Len(epub.resources[1]) |-> ResourcePath(epub.resources[1][k])])
    \o UnderOEBPS(NumberedNames(Forest))
    \o <<OEBPS \o CONTENT_OPF, OEBPS \o TOC_NCX>>

\* C8: the entries are written in the fixed order mimetype,
\* META-INF/container.xml, META-INF/com.apple.ibooks.display-options.xml,
\* OEBPS/style.css iff a stylesheet is set, the cover iff set, the resources
\* in declared order, the content documents in numbering order,
\* OEBPS/content.opf and OEBPS/toc.ncx: at every moment the buffered archive
\* and the sink are a beginning of that list, and a call that succeeded
\* wrote all of it.
C8_FixedEntryOrder ==
    /\ IsPrefix(Paths(zip_writer), ExpectedPaths)
    /\ IsPrefix(Paths(writer), ExpectedPaths)
    /\ result = Some("Ok") => Paths(writer) = ExpectedPaths

\* A call succeeded for a document with stylesheet, cover, two resources and
\* four content documents.
C8_FullArchiveWritten ==
    /\ result = Some("Ok")
    /\ epub.stylesheet /= None
    /\ epub.cover_image /= None
    /\ epub.resources /= None /\ Len(epub.resources[1]) = 2
    /\ Len(PreOrder(Forest)) = 4
    /\ Len(writer) = 13

(***************************************************************************)
(* Properties of the navigation document.                                  *)
(***************************************************************************)
NavPointCount(contents) == Len(PreOrder(contents)) + SumReferences(PreOrder(contents))

PlayOrderContract(navMap, contents) ==
    /\ PlayOrders(navMap) = [k \in 1..NavPointCount(contents) |-> k]
    /\ \A k \in 1..Len(ContentNavPoints(navMap)) :
           ContentNavPoints(navMap)[k].id
               = NAVPOINT \o Decimal(ContentNavPoints(navMap)[k].playOrder)

\* C9: one play-order counter serves the navPoints of Content nodes and of
\* ContentReferences at every depth: read in document order the playOrder
\* values of the navMap are 1, 2, ..., N, where N is the number of Content
\* nodes plus the number of ContentReferences, and the id of the navPoint
\* of a Content node is navPoint-<its playOrder>.  This holds of the navMap
\* generated for the forest and of the one in the archive.
C9_PlayOrderIsOneCounter ==
    /\ PlayOrderContract(contents_to_nav_point(0, Forest).xml, Forest)
    /\ contents_to_nav_point(0, Forest).play_order = NavPointCount(Forest)
    /\ \A i \in 1..Len(zip_writer) :
           IsNavigationDocument(zip_writer[i]) =>
               PlayOrderContract(zip_writer[i].bytes.navMap, Forest)

\* The navigation document in the archive has nine navPoints: nested
\* references, a reference after them, children and a later root.
C9_NineNavPointsWritten ==
    /\ Forest = <<WithRefs, Deep>>
    /\ NavigationDocuments(zip_writer) /= <<>>
    /\ Len(PlayOrders(NavigationDocuments(zip_writer)[1].bytes.navMap)) = 9

\* C10: the number at the head of the id of the navPoint of a
\* ContentReference, between navPoint- and the path, is the file number the
\* resolver gives the Content node that owns the reference, that is the
\* position of the node in pre-order, also when earlier Content nodes own
\* references.
C10_ReferenceIdCarriesFileNumber ==
    \A i \in 1..Len(zip_writer) :
        IsNavigationDocument(zip_writer[i]) =>
            LET owners == ContentNavPoints(zip_writer[i].bytes.navMap)
            IN \A k \in 1..Len(owners) :
                   \A r \in 1..Len(ReferenceNavPoints(owners[k].content_references)) :
                       IdNumber(ReferenceNavPoints(owners[k].content_references)[r].id)
                           = Decimal(k)

(***************************************************************************)
(* Properties of the navPoints of references.                              *)
(***************************************************************************)
Returned(call) == returned /= None /\ returned[1].call = call

subreferences_of(content_reference) ==
    IF is_some(content_reference.subcontent_references)
    THEN unwrap(content_reference.subcontent_references)
    ELSE <<>>

RECURSIVE SiblingPaths(_, _, _)
\* The paths of the references of a list in document order: the reference
\* at sibling position i under path gets path-i, its children come next.
SiblingPaths(content_references, path, i) ==
    IF i > Len(content_references) THEN <<>>
    ELSE <<path \o <<"-">> \o Decimal(i)>>
         \o SiblingPaths(subreferences_of(content_references[i]),
                         path \o <<"-">> \o Decimal(i), 1)
         \o SiblingPaths(content_references, path, i + 1)

\* What follows the number in the id of the navPoint of a reference.
IdPath(id) == SubSeq(id, Len(NAVPOINT) + Len(IdNumber(id)) + 1, Len(id))

IdPaths(nav_points) ==
    [r \in 1..Len(ReferenceNavPoints(nav_points)) |->
        IdPath(ReferenceNavPoints(nav_points)[r].id)]

\* C11: the path in the id of the navPoint of a reference is the list of
\* the 1-based sibling positions that lead to it from the list handed to
\* content_references_to_nav_point, each preceded by a dash: -1, -1-1,
\* -1-1-1, then -2 for the next sibling at the top, at any depth and for any
\* number of siblings.
C11_IdPathIsSiblingPositions ==
    Returned("content_references_to_nav_point") =>
        IdPaths(returned[1].value.nav_points.xml)
            = SiblingPaths(returned[1].value.content_references, <<>>, 1)

\* The call returned navPoints with the paths -1-1-1, -1-2 and -2.
C11_NestedAndSiblingPaths ==
    /\ Returned("content_references_to_nav_point")
    /\ \E r \in 1..Len(IdPaths(returned[1].value.nav_points.xml)) :
           IdPaths(returned[1].value.nav_points.xml)[r] = <<"-", "1", "-", "1", "-", "1">>
    /\ \E r \in 1..Len(IdPaths(returned[1].value.nav_points.xml)) :
           IdPaths(returned[1].value.nav_points.xml)[r] = <<"-", "1", "-", "2">>
    /\ \E r \in 1..Len(IdPaths(returned[1].value.nav_points.xml)) :
           IdPaths(returned[1].value.nav_points.xml)[r] = <<"-", "2">>

RECURSIVE FlattenReferences(_)
\* The references of a list depth-first: a reference, its children, the
\* next sibling.
FlattenReferences(content_references) ==
    IF content_references = <<>> THEN <<>>
    ELSE <<Head(content_references)>>
         \o FlattenReferences(subreferences_of(Head(content_references)))
         \o FlattenReferences(Tail(content_references))

\* The anchor targets of the reference chain of one Content node whose
\* document is file_name.
AnchorTargets(file_name, content_references) ==
    [r \in 1..Len(FlattenReferences(content_references)) |->
        file_name \o <<"#">>
        \o (IF FlattenReferences(content_references)[r].id = None
            THEN <<"i", "d">> \o TwoDigits(r)
            ELSE FlattenReferences(content_references)[r].id[1])]

NavPointSrcs(nav_points) ==
    [r \in 1..Len(ReferenceNavPoints(nav_points)) |->
        ReferenceNavPoints(nav_points)[r].src]

\* C12: the anchor target of a reference is the file name of the document
\* of the Content node that owns it, #, and the explicit id when one is set,
\* else id and the link number in two digits; the link number starts at 0
\* for the chain of each Content node, grows by one for every reference
\* visited depth-first in the chain, those with an explicit id included,
\* and is not carried over to another Content node.  Stated of the
\* navigation document in the archive.
C12_AnchorIsOwnFileAndLinkNumber ==
    \A i \in 1..Len(zip_writer) :
        IsNavigationDocument(zip_writer[i]) =>
            LET owners == ContentNavPoints(zip_writer[i].bytes.navMap)
            IN \A k \in 1..Len(owners) :
                   NavPointSrcs(owners[k].content_references)
                       = AnchorTargets(NumberedNames(Forest)[k],
                                       references_of(PreOrder(Forest)[k]))

\* The same with the file name the navigation document itself gives the
\* owner: the link numbers alone.
LinkNumbersPerContent ==
    \A i \in 1..Len(zip_writer) :
        IsNavigationDocument(zip_writer[i]) =>
            LET owners == ContentNavPoints(zip_writer[i].bytes.navMap)
            IN \A k \in 1..Len(owners) :
                   NavPointSrcs(owners[k].content_references)
                       = AnchorTargets(owners[k].src,
                                       references_of(PreOrder(Forest)[k]))

RECURSIVE OwnThenReferencesThenChildren(_, _)
\* In a list of navPoints generated for a list of Contents, every navPoint
\* is that of its Content, holds the navPoints of the reference chain of
\* the Content with the play orders that follow its own, and after them the
\* navPoints of the children, whose play orders follow those of the chain.
OwnThenReferencesThenChildren(nav_points, contents) ==
    /\ Len(nav_points) = Len(contents)
    /\ \A k \in 1..Len(nav_points) :
           LET nav_point == nav_points[k]
               chain == ReferenceNavPoints(nav_point.content_references)
               expected == FlattenReferences(references_of(contents[k]))
           IN /\ nav_point.text = Content_title(contents[k])
              /\ Len(chain) = Len(expected)
              /\ \A r \in 1..Len(chain) :
                     /\ chain[r].text = expected[r].title
                     /\ chain[r].playOrder = nav_point.playOrder + r
              /\ \A j \in 1..Len(PlayOrders(nav_point.subs)) :
                     PlayOrders(nav_point.subs)[j]
                         = nav_point.playOrder + Len(chain) + j
              /\ OwnThenReferencesThenChildren(nav_point.subs, children_of(contents[k]))

\* C13: for every Content node the navigation document holds the navPoint
\* of the node, inside it first the navPoints of its reference chain and
\* then those of its child Content nodes, emitted in this order: every
\* reference of a node has a smaller play order than every child Content
\* node of that node.
C13_ReferencesBeforeChildren ==
    \A i \in 1..Len(zip_writer) :
        IsNavigationDocument(zip_writer[i]) =>
            OwnThenReferencesThenChildren(zip_writer[i].bytes.navMap, Forest)

\* The navigation document of a forest whose first node has a reference and
\* two children is in the archive.
C13_NodeWithReferencesAndChildren ==
    /\ NavigationDocuments(zip_writer) /= <<>>
    /\ Forest /= <<>>
    /\ Head(Forest) = Parent
    /\ NavigationDocuments(zip_writer)[1].bytes.navMap[1].content_references /= <<>>
    /\ Len(NavigationDocuments(zip_writer)[1].bytes.navMap[1].subs) = 2

(***************************************************************************)
(* Properties of the guide.                                                *)
(***************************************************************************)
RECURSIVE Depths(_, _)
\* The depth of every Content node of a forest in pre-order: 1 for a root.
Depths(contents, depth) ==
    IF contents = <<>> THEN <<>>
    ELSE <<depth>> \o Depths(children_of(Head(contents)), depth + 1)
         \o Depths(Tail(contents), depth)

RootOrChild(named) == named.depth <= 2

\* The names of the root nodes and of their direct children, in pre-order.
RootAndChildNames(contents) ==
    LET named == [k \in 1..Len(PreOrder(contents)) |->
                     [name |-> NumberedNames(contents)[k],
                      depth |-> Depths(contents, 1)[k]]]
        kept == SelectSeq(named, RootOrChild)
    IN [k \in 1..Len(kept) |-> kept[k].name]

\* C14: the guide of the package document has one reference for every root
\* Content node and for every direct child of a root node, none for a node
\* at depth three or deeper, and the href of each is the file name of the
\* node.
C14_GuideStopsAtDirectChildren ==
    \A j \in 1..Len(zip_writer) :
        IsPackageDocument(zip_writer[j]) =>
            Hrefs(zip_writer[j].bytes.guide) = RootAndChildNames(Forest)

(***************************************************************************)
(* Properties of the depth measures.                                       *)
(***************************************************************************)
RECURSIVE ReferenceFirstChildDepth(_)
\* The length of the first-child chain below a ContentReference node.
ReferenceFirstChildDepth(node) ==
    IF subreferences_of(node) = <<>> THEN 0
    ELSE 1 + ReferenceFirstChildDepth(subreferences_of(node)[1])

RECURSIVE ContentFirstChildDepth(_)
\* The length of the first-child chain below a Content node.
ContentFirstChildDepth(node) ==
    IF children_of(node) = <<>> THEN 0
    ELSE 1 + ContentFirstChildDepth(children_of(node)[1])

\* C15: the subtree depth of a node (Content::level, ContentReference::level)
\* is 0 for a node without children and otherwise 1 + the depth of its first
\* child, whatever its later siblings hold.
C15_LevelFollowsFirstChildOnly ==
    /\ Returned("ContentReference::level") =>
           /\ ~unwrap(returned).value.panicked
           /\ unwrap(returned).value.level = ReferenceFirstChildDepth(unwrap(reference))
    /\ Returned("Content::level") =>
           /\ ~unwrap(returned).value.panicked
           /\ unwrap(returned).value.level
                  = ContentFirstChildDepth(ContentBuilder_build(unwrap(builder)))

\* What C15 states, apart from a present but empty list of children.
LevelFollowsFirstChildUnlessPanicked ==
    /\ Returned("ContentReference::level") /\ ~unwrap(returned).value.panicked =>
           unwrap(returned).value.level = ReferenceFirstChildDepth(unwrap(reference))
    /\ Returned("Content::level") /\ ~unwrap(returned).value.panicked =>
           unwrap(returned).value.level
               = ContentFirstChildDepth(ContentBuilder_build(unwrap(builder)))

RECURSIVE CombinedDepth(_)
\* The larger of the first-reference chain and of the first-child chain below
\* a Content node, references counted at every Content of the chain.
CombinedDepth(node) ==
    LET by_references ==
            IF references_of(node) = <<>> THEN 0
            ELSE 1 + ReferenceFirstChildDepth(references_of(node)[1])
        by_children ==
            IF children_of(node) = <<>> THEN 0
            ELSE 1 + CombinedDepth(children_of(node)[1])
    IN IF by_references >= by_children THEN by_references ELSE by_children

\* The depths the root nodes of a forest ask for: each metric + 1.
RootDepths(contents) ==
    {ContentFirstChildDepth(contents[i]) + 1 : i \in 1..Len(contents)}
        \cup {CombinedDepth(contents[i]) + 1 : i \in 1..Len(contents)}

IsFlat(contents) ==
    \A i \in 1..Len(contents) :
        children_of(contents[i]) = <<>> /\ references_of(contents[i]) = <<>>

\* C16: the dtb:depth of a written toc.ncx is the largest, over the root
\* Content nodes, of subtree depth + 1 and combined depth + 1; it is 1 for a
\* non-empty flat list and 0 for a document without a content list.
C16_DepthIsLargestRootDepth ==
    \A j \in 1..Len(zip_writer) :
        IsNavigationDocument(zip_writer[j]) =>
            LET depth == zip_writer[j].bytes.depth
            IN /\ Forest /= <<>> =>
                      /\ depth \in RootDepths(Forest)
                      /\ \A d \in RootDepths(Forest) : d <= depth
                      /\ IsFlat(Forest) => depth = 1
               /\ epub.contents = None => depth = 0

\* A toc.ncx whose depth comes from the second root node, and one of a
\* document without a content list.
C16_DepthFromSecondRoot ==
    \E j \in 1..Len(zip_writer) :
        /\ IsNavigationDocument(zip_writer[j])
        /\ Len(Forest) = 2
        /\ IsFlat(<<Forest[1]>>)
        /\ zip_writer[j].bytes.depth = 3


\* A toc.ncx of a document without a content list.
NoContentListDepthWritten ==
    \E j \in 1..Len(zip_writer) :
        IsNavigationDocument(zip_writer[j]) /\ epub.contents = None

(***************************************************************************)
(* Properties of the XHTML serializer.                                     *)
(***************************************************************************)
\* C17: Content::xhtml returns a text that begins with the XML declaration
\* unchanged, every text it returns begins with that declaration, and so
\* applying it to its own output, under any stylesheet flag and any title,
\* returns that output unchanged.
C17_XhtmlIsIdempotent ==
    Returned("Content::xhtml") =>
        LET value == unwrap(returned).value
        IN /\ starts_with(value.text, <<XML_DECL>>) => value.xhtml = value.text
           /\ starts_with(value.xhtml, <<XML_DECL>>)
           /\ \A content \in ContentSet, add_stylesheet \in BOOLEAN :
                  Content_xhtml(content, value.xhtml, add_stylesheet) = value.xhtml

\* A body without the declaration was wrapped, with the stylesheet link.
C17_WrappedWithStylesheet ==
    /\ Returned("Content::xhtml")
    /\ ~starts_with(unwrap(returned).value.text, <<XML_DECL>>)
    /\ unwrap(returned).value.add_stylesheet
    /\ Len(unwrap(returned).value.xhtml) > Len(unwrap(returned).value.text)

(***************************************************************************)
(* Properties of the fluent builders.                                      *)
(***************************************************************************)
Resources == IF is_some(epub.resources) THEN unwrap(epub.resources) ELSE <<>>

\* C18: every add_* call of EpubBuilder, ContentBuilder and ContentReference
\* leaves the list it is about as the list it found followed by its
\* arguments in the order given, and changes no other field; so the stored
\* list is the concatenation of all arguments in call order.
C18_AddCallsOnlyAppend ==
    [][/\ \A content \in ContentChildren :
              add_content(content) =>
                  epub' = [epub EXCEPT !.contents = Some(Forest \o <<content>>)]
       /\ \A contents \in ContentChildVectors :
              add_contents(contents) =>
                  epub' = [epub EXCEPT !.contents = Some(Forest \o contents)]
       /\ \A resource \in ResourceSet :
              add_resource(resource) =>
                  epub' = [epub EXCEPT !.resources = Some(Resources \o <<resource>>)]
       /\ \A resources \in ResourceVectors :
              add_resources(resources) =>
                  epub' = [epub EXCEPT !.resources = Some(Resources \o resources)]
       /\ \A content \in ContentChildren :
              builder_add_child(content) =>
                  builder' = Some([unwrap(builder) EXCEPT !.subcontents =
                                       Some(children_of(unwrap(builder)) \o <<content>>)])
       /\ \A contents \in ContentChildVectors :
              builder_add_children(contents) =>
                  builder' = Some([unwrap(builder) EXCEPT !.subcontents =
                                       Some(children_of(unwrap(builder)) \o contents)])
       /\ builder_add_content_reference =>
              builder' = Some([unwrap(builder) EXCEPT !.content_references =
                                   Some(references_of(unwrap(builder))
                                        \o <<unwrap(reference)>>)])
       /\ \A content_references \in ReferenceVectors :
              builder_add_content_references(content_references) =>
                  builder' = Some([unwrap(builder) EXCEPT !.content_references =
                                       Some(references_of(unwrap(builder))
                                            \o content_references)])
       /\ \A child \in ReferenceChildren :
              reference_add_child(child) =>
                  reference' = Some([unwrap(reference) EXCEPT !.subcontent_references =
                                         Some(subreferences_of(unwrap(reference))
                                              \o <<child>>)])
       /\ \A children \in ReferenceVectors :
              reference_add_children(children) =>
                  reference' = Some([unwrap(reference) EXCEPT !.subcontent_references =
                                         Some(subreferences_of(unwrap(reference))
                                              \o children)])]_vars

\* A builder whose children came from add_child followed by add_children.
C18_ChildThenChildren ==
    /\ builder /= None
    /\ children_of(unwrap(builder)) = <<Plain, Plain, Named>>


\* C19: the combined depth of a Content node (level_reference_content) is
\* the larger of 1 + the subtree depth of its first ContentReference, when it
\* has references, and 1 + the combined depth of its first child, when it
\* has children; it is 0 for a node with neither.
C19_CombinedDepthFollowsFirstOfEach ==
    Returned("Content::level_reference_content") =>
        /\ ~unwrap(returned).value.panicked
        /\ unwrap(returned).value.level
               = CombinedDepth(ContentBuilder_build(unwrap(builder)))

\* What C19 states, apart from a present but empty list.
CombinedDepthUnlessPanicked ==
    Returned("Content::level_reference_content") /\ ~unwrap(returned).value.panicked =>
        unwrap(returned).value.level
            = CombinedDepth(ContentBuilder_build(unwrap(builder)))

(***************************************************************************)
(* Properties of the reads of the asynchronous creator.                    *)
(***************************************************************************)
\* create failed at try_join_all(contents).await?.
failed_at_join == variant = "async" /\ pc = "join" /\ failed

\* C20: async create makes the reads of all resources together and awaits
\* them jointly; when one read fails create fails, and it reports the
\* failure only when every read has been awaited to its end: none is still
\* pending or not begun.
C20_FailureOnlyAfterEveryReadEnded ==
    failed_at_join => \A i \in 1..Len(reads) : reads[i] \in {"ready", "failed"}

\* The part of C20 the creator keeps: a failed read fails create at the
\* join, and files are added only when every read is ready.
FailedReadFailsCreate ==
    /\ (\E i \in 1..Len(reads) : reads[i] = "failed") => failed_at_join
    /\ (\E i \in 1..Len(reads) : reads[i] /= "ready") => variant = "async" /\ pc = "join"

(***************************************************************************)
(* Properties of the formatting tasks of the asynchronous creator.         *)
(***************************************************************************)
\* C21: in the asynchronous variant every content document, at any depth of
\* the tree, is formatted on the worker of spawn_blocking and none on the
\* calling task (the package and the navigation document go through
\* async_format_generated, whose task is the worker).
C21_EveryDocumentFormattedOnWorker ==
    Returned("Content::async_file_content") =>
        \A i \in 1..Len(unwrap(returned).value.tasks) :
            unwrap(returned).value.tasks[i] = "worker"

\* What the asynchronous variant keeps of C21: the document of the node
\* async_file_content is called on is formatted on the worker.
RootDocumentFormattedOnWorker ==
    Returned("Content::async_file_content")
    /\ unwrap(returned).value.tasks /= <<>> =>
        unwrap(returned).value.tasks[1] = "worker"

(***************************************************************************)
(* Properties of the stylesheet.                                           *)
(***************************************************************************)
HasStylesheet == epub.stylesheet /= None

\* The formatted document of a wrapped body: the boilerplate, the title, the
\* link if linked, and the body between the head and the closing html.
WrappedDocument(node, linked) ==
    <<XML_DECL, DOCTYPE, "<html>", "<head>", "<title>", Content_title(node), "</title>">>
    \o (IF linked THEN <<STYLESHEET_LINK>> ELSE <<>>)
    \o <<"</head>">> \o node.body \o <<"</html>">>

IsStylesheetItem(item) == item.href = STYLE_CSS

UnstyledDocumentsAndManifest ==
    /\ ~HasStylesheet
    /\ Len(ContentDocuments(zip_writer)) >= 2
    /\ PackageDocuments(zip_writer) /= <<>>

(***************************************************************************)
(* Properties of documents with present but empty lists.                   *)
(***************************************************************************)
\* The variants of crate::Error a create call can return.
TypedErrors ==
    {"Io", "Zip", "TokioJoinError", "Utf8", "XmlParser", "FilenameNotFound",
     "ContentFilename"}

\* C23: for every document the public builders can build, one with a
\* present but empty list of children included, create ends with Ok or with
\* a variant of crate::Error and never by a panic: the depth calculation
\* takes a node with an empty child list for a leaf.
C23_CreateEndsWithOkOrTypedError ==
    result /= None => unwrap(result) \in {"Ok"} \cup TypedErrors

(***************************************************************************)
(* Properties of the navPoint ids.                                         *)
(***************************************************************************)
RECURSIVE AllNavPointIds(_)
\* The id of every navPoint of a navMap, of Content nodes and of references
\* at every depth, in document order.
AllNavPointIds(nav_points) ==
    IF nav_points = <<>> THEN <<>>
    ELSE <<Head(nav_points).id>>
         \o [r \in 1..Len(ReferenceNavPoints(Head(nav_points).content_references)) |->
                 ReferenceNavPoints(Head(nav_points).content_references)[r].id]
         \o AllNavPointIds(Head(nav_points).subs)
         \o AllNavPointIds(Tail(nav_points))

PairwiseDistinct(seq) ==
    \A i, j \in 1..Len(seq) : seq[i] = seq[j] => i = j

\* C24: in the navMap of a navigation document no two navPoints have the
\* same id, whether they stand for Content nodes or for references, of one
\* owner or of several, at any depth.
C24_NavPointIdsDistinct ==
    \A i \in 1..Len(zip_writer) :
        IsNavigationDocument(zip_writer[i]) =>
            PairwiseDistinct(AllNavPointIds(zip_writer[i].bytes.navMap))

\* A navMap in which two Content nodes own references, nested ones among
\* them.
C24_TwoOwnersWithNestedReferences ==
    \E i \in 1..Len(zip_writer) :
        /\ IsNavigationDocument(zip_writer[i])
        /\ Forest = <<WithRefs, WithRefs>>
        /\ Len(AllNavPointIds(zip_writer[i].bytes.navMap)) > 6

(***************************************************************************)
(* Properties of the uniqueness of file names.                             *)
(***************************************************************************)
ManifestContentIds(opf) ==
    LET items == SelectSeq(opf.manifest, IsContentItem)
    IN [i \in 1..Len(items) |-> items[i].id]

\* C25: no two Content nodes of a document get the same file name: the
\* content documents of the archive have pairwise distinct paths and the
\* content items of the manifest pairwise distinct ids and hrefs, also when
\* explicit file names stand beside generated ones.
C25_ContentFileNamesDistinct ==
    /\ PairwiseDistinct(ContentDocumentNames(zip_writer))
    /\ \A j \in 1..Len(zip_writer) :
           IsPackageDocument(zip_writer[j]) =>
               /\ PairwiseDistinct(ManifestContentHrefs(zip_writer[j].bytes))
               /\ PairwiseDistinct(ManifestContentIds(zip_writer[j].bytes))

\* What holds of C25: the generated names of one walk are pairwise distinct.
GeneratedNamesDistinct ==
    \A i, j \in 1..Len(PreOrder(Forest)) :
        /\ PreOrder(Forest)[i].filename = None
        /\ PreOrder(Forest)[j].filename = None
        /\ i <= Len(ContentDocumentNames(zip_writer))
        /\ j <= Len(ContentDocumentNames(zip_writer))
        /\ ContentDocumentNames(zip_writer)[i] = ContentDocumentNames(zip_writer)[j]
        => i = j

(***************************************************************************)
(* Properties of the manifest against the archive.                         *)
(***************************************************************************)
\* The paths under OEBPS/ of an archive, the package document left out.
PackagedUnderOEBPS(archive) ==
    {archive[i].filepath : i \in 1..Len(archive)}
        \cap {path \in {archive[i].filepath : i \in 1..Len(archive)} :
                  IsPrefix(OEBPS, path) /\ path /= OEBPS \o CONTENT_OPF}

\* The paths the manifest of a package document lists.
ListedInManifest(opf) ==
    {OEBPS \o opf.manifest[i].href : i \in 1..Len(opf.manifest)}

\* C26: after a successful create the hrefs of the manifest are the entries
\* of the archive under OEBPS/ other than content.opf: toc.ncx, style.css
\* and the cover if set, every resource and every content document, nothing
\* more and nothing less.
C26_ManifestListsWhatIsPackaged ==
    result = Some("Ok") =>
        /\ Len(PackageDocuments(writer)) = 1
        /\ ListedInManifest(PackageDocuments(writer)[1].bytes) = PackagedUnderOEBPS(writer)

\* A successful create of a document with stylesheet, cover, two resources
\* and content documents.
C26_EveryKindPackaged ==
    /\ result = Some("Ok")
    /\ epub.stylesheet /= None
    /\ epub.cover_image /= None
    /\ epub.resources /= None /\ Len(epub.resources[1]) = 2
    /\ Cardinality(PackagedUnderOEBPS(writer)) >= 7

(***************************************************************************)
(* The two variants of create against each other.                          *)
(***************************************************************************)
\* The steps of the synchronous create of a document, in the order of
\* creator.rs, each with the files it adds or the error the document itself
\* makes it end with; every read succeeds and every generated document is
\* accepted by the formatter.
SynchronousSteps(self) ==
    << [at |-> "mandatory", err |-> None,
        files |-> <<mimetype, container, display_options>>],
       [at |-> "stylesheet", err |-> None,
        files |-> IF is_some(self.stylesheet)
                  THEN <<FileContent_new(OEBPS \o STYLE_CSS,
                                         [data |-> unwrap(self.stylesheet)])>>
                  ELSE <<>>],
       IF is_some(self.cover_image)
       THEN LET read == Resource_file_content(unwrap(self.cover_image), TRUE)
            IN [at |-> "cover_image", err |-> read.err, files |-> read.file]
       ELSE [at |-> "cover_image", err |-> None, files |-> <<>>],
       IF is_some(self.resources)
       THEN LET read == collect_file_content(
                            unwrap(self.resources),
                            [i \in 1..Len(unwrap(self.resources)) |-> TRUE])
            IN [at |-> "resources", err |-> read.err, files |-> read.files]
       ELSE [at |-> "resources", err |-> None, files |-> <<>>],
       IF is_some(self.contents)
       THEN LET docs == file_content_subcontents(
                            unwrap(self.contents), 0, is_some(self.stylesheet))
            IN [at |-> "contents", err |-> docs.err,
                files |-> IF is_some(docs.err) THEN <<>> ELSE docs.files]
       ELSE [at |-> "contents", err |-> None, files |-> <<>>],
       LET opf == content_opf(self)
       IN [at |-> "content_opf", err |-> opf.err,
           files |-> IF is_some(opf.err) THEN <<>>
                     ELSE format_generated(unwrap(opf.file), TRUE).file],
       LET ncx == toc_ncx(self)
       IN [at |-> "toc_ncx", err |-> ncx.err,
           files |-> IF is_some(ncx.err) THEN <<>>
                     ELSE format_generated(unwrap(ncx.file), TRUE).file] >>

RECURSIVE SynchronousRun(_, _, _)
\* What the synchronous create comes to from step i on: the archive, and the
\* error and the step it ends at if the document makes it fail.
SynchronousRun(steps, zip, file_options) ==
    IF steps = <<>> THEN [archive |-> zip, err |-> None, at |-> "finish"]
    ELSE IF is_some(Head(steps).err)
    THEN [archive |-> zip, err |-> Head(steps).err, at |-> Head(steps).at]
    ELSE SynchronousRun(Tail(steps),
                        add_files(zip, Head(steps).files, file_options),
                        file_options)

\* The failures that the document decides, not the file system, the ZIP
\* writer or the runtime: a path without a file name, a body that is not
\* UTF-8 or not well-formed, a file name without a stem, an abort.
FailedOnInput ==
    /\ failed
    /\ \/ unwrap(result) \in {"FilenameNotFound", "Utf8", "ContentFilename", "Panic"}
       \/ unwrap(result) = "XmlParser" /\ pc = "contents"

\* The step a create is at, the join of the reads being part of the
\* resources step.
StepAt == IF pc = "join" THEN "resources" ELSE pc

\* The place of a step in the order of create.
StepNumber(at) ==
    CHOOSE n \in 1..9 :
        <<"mandatory", "stylesheet", "cover_image", "resources", "contents",
          "content_opf", "toc_ncx", "finish", "done">>[n] = at

\* C27: for the same document and compression choice the synchronous and
\* the concurrent create produce the same sequence of archive entries (same
\* paths, same contents, same order) and fail on the same inputs: in either
\* variant the archive built so far is a prefix of the one archive the
\* document and the compression determine, a successful run has built all of
\* it, a document that makes one variant fail makes every run of either
\* variant that gets to that step fail there with that error, and no run
\* fails on its input anywhere else.
C27_VariantsBuildTheSameArchive ==
    variant \in {"sync", "async"} =>
        LET run == SynchronousRun(SynchronousSteps(epub), <<>>, options)
        IN /\ IsPrefix(zip_writer, run.archive)
           /\ result = Some("Ok") => run.err = None /\ writer = run.archive
           /\ FailedOnInput => run.err = result /\ run.at = StepAt
           /\ run.err /= None => StepNumber(StepAt) <= StepNumber(run.at)

\* A concurrent create has succeeded on a document with a stylesheet, a
\* cover, resources and nested content, compressed.
C27_ConcurrentRunOfEveryKind ==
    /\ variant = "async"
    /\ result = Some("Ok")
    /\ options = "Deflated"
    /\ epub.stylesheet /= None
    /\ epub.cover_image /= None
    /\ epub.resources /= None /\ Len(epub.resources[1]) = 2
    /\ epub.contents /= None /\ Len(epub.contents[1]) >= 1
    /\ Len(writer) >= 9

(***************************************************************************)
(* The resources of the concurrent create.                                 *)
(***************************************************************************)
\* The paths of the declared resources, in declared order.
DeclaredResourcePaths ==
    IF epub.resources = None THEN <<>>
    ELSE [k \in 1..Len(epub.resources[1]) |-> ResourcePath(epub.resources[1][k])]

\* The entries of an archive behind the mandatory files, the stylesheet and
\* the cover, as far as they are entries of declared resources.
ResourceEntries(archive) ==
    LET before == 3 + (IF epub.stylesheet = None THEN 0 ELSE 1)
                    + (IF epub.cover_image = None THEN 0 ELSE 1)
        behind == SubSeq(Paths(archive), before + 1, Len(archive))
    IN SelectSeq(behind,
                 LAMBDA path : \E k \in 1..Len(DeclaredResourcePaths) :
                                   DeclaredResourcePaths[k] = path)

\* C28: in the concurrent create the resource entries are in the archive in
\* the order the resources were declared, whatever order the reads ended
\* in, and no resource entry is written before every read has succeeded;
\* once the resources step is over without a failure every declared
\* resource has its entry.
C28_ResourcesInDeclaredOrderAfterAllReads ==
    variant = "async" =>
        /\ IsPrefix(ResourceEntries(zip_writer), DeclaredResourcePaths)
        /\ ResourceEntries(zip_writer) /= <<>> =>
               /\ Len(reads) = Len(DeclaredResourcePaths)
               /\ \A i \in 1..Len(reads) : reads[i] = "ready"
        /\ pc \in {"mandatory", "stylesheet", "cover_image", "resources"} =>
               ResourceEntries(zip_writer) = <<>>
        /\ pc \in {"contents", "content_opf", "toc_ncx", "finish", "done"} =>
               ResourceEntries(zip_writer) = DeclaredResourcePaths

\* Two declared resources have been read and their entries are in the
\* archive, the first declared first.
C28_TwoResourcesWritten ==
    /\ variant = "async"
    /\ Len(reads) = 2
    /\ Len(DeclaredResourcePaths) = 2
    /\ DeclaredResourcePaths[1] /= DeclaredResourcePaths[2]
    /\ ResourceEntries(zip_writer) = DeclaredResourcePaths

\* The read of the second resource has ended while the first is still
\* being read.
SecondReadEndedFirst ==
    variant = "async" /\ pc = "join" /\ reads = <<"pending", "ready">>

(***************************************************************************)
(* The written dtb:depth against the nesting of the written navMap.        *)
(***************************************************************************)
\* The largest of a set of naturals, 0 for the empty set.
Largest(values) ==
    IF values = {} THEN 0 ELSE CHOOSE m \in values : \A v \in values : v <= m

RECURSIVE ReferenceNavPointDepth(_)
\* The nesting depth of a list of navPoint elements of references.
ReferenceNavPointDepth(nav_points) ==
    Largest({1 + ReferenceNavPointDepth(nav_points[i].subcontent_references) :
                 i \in 1..Len(nav_points)})

RECURSIVE NavPointDepth(_)
\* The nesting depth of a list of navPoint elements of Content nodes: the
\* longest chain of navPoint elements one inside the other.
NavPointDepth(nav_points) ==
    Largest({1 + Largest({ReferenceNavPointDepth(nav_points[i].content_references),
                          NavPointDepth(nav_points[i].subs)}) :
                 i \in 1..Len(nav_points)})

RECURSIVE LaterReferenceDeeper(_)
\* Somewhere in a list of reference navPoints a later sibling nests deeper
\* than the first of its list.
LaterReferenceDeeper(nav_points) ==
    \/ \E i \in 2..Len(nav_points) :
           ReferenceNavPointDepth(<<nav_points[i]>>) > ReferenceNavPointDepth(<<nav_points[1]>>)
    \/ \E i \in 1..Len(nav_points) :
           LaterReferenceDeeper(nav_points[i].subcontent_references)

RECURSIVE LaterChainDeeper(_, _)
\* Somewhere below the roots of a navMap a later child or a later reference
\* nests deeper than the first of its list.  The roots themselves are all
\* measured, so a deeper later root does not count (is_root).
LaterChainDeeper(nav_points, is_root) ==
    \/ /\ ~is_root
       /\ \E i \in 2..Len(nav_points) :
              NavPointDepth(<<nav_points[i]>>) > NavPointDepth(<<nav_points[1]>>)
    \/ \E i \in 1..Len(nav_points) :
           \/ LaterReferenceDeeper(nav_points[i].content_references)
           \/ LaterChainDeeper(nav_points[i].subs, FALSE)

\* C29: the dtb:depth of a written toc.ncx never exceeds the true maximum
\* nesting depth of the navPoint elements of its navMap, and it is strictly
\* smaller only when some non-first child or non-first reference chain is
\* deeper than the first-child or first-reference chain.
C29_DepthNeverAboveNesting ==
    \A j \in 1..Len(zip_writer) :
        IsNavigationDocument(zip_writer[j]) =>
            LET ncx == zip_writer[j].bytes
            IN /\ ncx.depth <= NavPointDepth(ncx.navMap)
               /\ ncx.depth < NavPointDepth(ncx.navMap) => LaterChainDeeper(ncx.navMap, TRUE)

\* What C29 states, of every toc.ncx with at least one navPoint.
DepthNeverAboveNestingOfNonEmptyNavMap ==
    \A j \in 1..Len(zip_writer) :
        IsNavigationDocument(zip_writer[j]) /\ zip_writer[j].bytes.navMap /= <<>> =>
            LET ncx == zip_writer[j].bytes
            IN /\ ncx.depth <= NavPointDepth(ncx.navMap)
               /\ ncx.depth < NavPointDepth(ncx.navMap) => LaterChainDeeper(ncx.navMap, TRUE)

\* A toc.ncx whose dtb:depth is below the nesting of its navMap.
DepthBelowNestingWritten ==
    \E j \in 1..Len(zip_writer) :
        /\ IsNavigationDocument(zip_writer[j])
        /\ zip_writer[j].bytes.depth < NavPointDepth(zip_writer[j].bytes.navMap)

\* A toc.ncx of a present but empty content list.
EmptyContentListDepthWritten ==
    \E j \in 1..Len(zip_writer) :
        /\ IsNavigationDocument(zip_writer[j])
        /\ epub.contents = Some(<<>>)
        /\ zip_writer[j].bytes.depth = 1
        /\ zip_writer[j].bytes.navMap = <<>>

(***************************************************************************)
(* The two depth measures of a Content node against each other.            *)
(***************************************************************************)
\* C30: for every Content node the combined depth (level_reference_content)
\* is greater than or equal to the subtree depth (level), so the dtb:depth
\* of a written toc.ncx of a document with root nodes is 1 + the largest
\* combined depth of a root node, and the largest subtree depth + 1 is
\* never above it.
C30_CombinedDepthDecides ==
    \A j \in 1..Len(zip_writer) :
        IsNavigationDocument(zip_writer[j]) =>
            /\ \A k \in 1..Len(PreOrder(Forest)) :
                   Content_level(PreOrder(Forest)[k])
                       <= Content_level_reference_content(PreOrder(Forest)[k])
            /\ Forest /= <<>> =>
                   /\ zip_writer[j].bytes.depth
                          = 1 + Largest({Content_level_reference_content(Forest[i]) :
                                             i \in 1..Len(Forest)})
                   /\ \A i \in 1..Len(Forest) :
                          Content_level(Forest[i]) + 1 <= zip_writer[j].bytes.depth

\* A toc.ncx of a document with a root whose children nest two deep and
\* whose references do not.
C30_RootWithChildrenTwoDeep ==
    \E j \in 1..Len(zip_writer) :
        /\ IsNavigationDocument(zip_writer[j])
        /\ \E i \in 1..Len(Forest) :
               /\ Content_level(Forest[i]) = 2
               /\ references_of(Forest[i]) = <<>>
        /\ zip_writer[j].bytes.depth >= 3

\* Of every node a builder gives whose depths can be taken: the combined
\* depth is not below the subtree depth.
BuiltCombinedDepthNotBelowSubtreeDepth ==
    builder /= None
    /\ ~Content_level_reference_content_panics(ContentBuilder_build(unwrap(builder)))
        => Content_level(ContentBuilder_build(unwrap(builder)))
               <= Content_level_reference_content(ContentBuilder_build(unwrap(builder)))

====
